---- MODULE Spec2Model ----
(***************************************************************************)
(* A model of gui/tileddrawwidget.py (TiledDrawWidget): the view transform, *)
(* the rotozoom operations, the mipmap choice and tile culling of repaint,  *)
(* and the motion-event handling that feeds stroke_to.                      *)
(*                                                                          *)
(* Floating point numbers are modelled as exact rationals <<n, d>>, d > 0,  *)
(* in lowest terms; every statement below is about exact arithmetic.        *)
(***************************************************************************)
EXTENDS Integers, Sequences, FiniteSets, TLC

VARIABLES
    \* ---- TiledDrawWidget fields (src/gui/tileddrawwidget.py:60-95)
    is_sensitive, last_event_time, last_event_x, last_event_y,
    last_event_device, last_event_had_pressure_info, last_painting_pos,
    dragfunc, pressure_mapping, bad_devices, motions,
    translation_x, translation_y, scale, rotation, mirrored, has_pointer,
    zoom_min, zoom_max,
    current_layer_solo, show_layers_above, overlay_layer,
    current_size,  \* set by the first size allocation: None before it
    \* ---- LayersTool fields (src/gui/layerswindow.py:97-229)
    _processing_model_updates,
    _layer_mode_combo,   \* the mode shown as active by the combo box
    _opacity_scale,      \* the value of the opacity scale, in percent
    \* ---- the collaborators, as logs of the calls made on them
    window,      \* the gdk window: None before realize, else its <<w, h>>
    strokes,     \* doc.stroke_to calls, in order
    warnings,    \* bad-pressure warnings printed, in order
    dragcalls,   \* calls of the drag callback, in order
    lines,       \* doc.straight_line calls, in order
    blits,       \* doc.blit_tile_into calls of the last repaint
    draws,       \* queue_draw and queue_draw_area calls, in order
    doc,         \* the document: doc.layers (bottom first) and doc.layer_idx
    painted,     \* the last repaint: its inputs and the choices it made
    rootstack,   \* the layer stack: mode and opacity of its current layer
    modelcalls,  \* set_current_layer_opacity / set_current_layer_mode calls
    \* ---- bookkeeping of the run
    stack,       \* the Python call stack of the layers panel, innermost last
    assertion_failed,  \* an assert of the layers panel has failed
    ncallbacks,  \* notifications and user changes delivered to the panel
    nevents,     \* input events delivered so far
    paths,       \* for each of them, the event and the way it took through its handler
    nops,        \* view operations performed so far
    last,        \* what the last step did
    streamOpen   \* the input source may still deliver events

vars == <<is_sensitive, last_event_time, last_event_x, last_event_y,
          last_event_device, last_event_had_pressure_info, last_painting_pos,
          dragfunc, pressure_mapping, bad_devices, motions,
          translation_x, translation_y, scale, rotation, mirrored, has_pointer,
          zoom_min, zoom_max, window, strokes, warnings, dragcalls, lines, blits,
          draws, painted, nevents, paths, nops, last, streamOpen,
          current_layer_solo, show_layers_above, overlay_layer, doc,
          current_size, _processing_model_updates, _layer_mode_combo,
          _opacity_scale, rootstack, modelcalls, stack, assertion_failed,
          ncallbacks>>

inputVars == <<is_sensitive, last_event_time, last_event_x, last_event_y,
               last_event_device, last_event_had_pressure_info,
               last_painting_pos, dragfunc, pressure_mapping, bad_devices,
               motions, strokes, warnings, dragcalls, lines, nevents, paths,
               streamOpen>>

layerVars == <<current_layer_solo, show_layers_above, overlay_layer, doc>>

panelVars == <<_processing_model_updates, _layer_mode_combo, _opacity_scale,
               rootstack, modelcalls, stack, assertion_failed, ncallbacks>>

viewVars == <<translation_x, translation_y, scale, rotation, mirrored,
              zoom_min, zoom_max>>

\* the number of layers of the document
NLayers == 3

\* Python's None: where a number, a point or a size is expected, and where a
\* name (a device, a callback) is expected
None == <<>>
NoName == "None"

----------------------------------------------------------------------------
(* Exact rational arithmetic.                                              *)

\* the element of a set of one element; {f(v) : v \in {e}} computes e once
\* for all the places where f uses it
Only(S) == CHOOSE x \in S : TRUE

RECURSIVE GCD(_, _)
GCD(a, b) == IF b = 0 THEN a ELSE GCD(b, a % b)

Abs(i) == IF i < 0 THEN -i ELSE i

Rat(n, d) ==
    LET g == GCD(Abs(n), Abs(d))
        s == IF d < 0 THEN -1 ELSE 1
    IN  <<(s * n) \div g, (s * d) \div g>>

R(i) == <<i, 1>>
Zero == R(0)
One == R(1)
Half == <<1, 2>>

\* (common factors are taken out before multiplying, to keep the numbers small)
RAdd(a, b) == IF a[2] = b[2] /\ a[2] = 1 THEN <<a[1] + b[1], 1>>
              ELSE LET g == GCD(a[2], b[2])
                   IN  Rat(a[1] * (b[2] \div g) + b[1] * (a[2] \div g),
                           (a[2] \div g) * b[2])
RNeg(a) == <<-a[1], a[2]>>
RSub(a, b) == RAdd(a, RNeg(b))
RMul(a, b) == IF a[2] = b[2] /\ a[2] = 1 THEN <<a[1] * b[1], 1>>
              ELSE IF a[1] = 0 \/ b[1] = 0 THEN <<0, 1>>
              ELSE LET g1 == GCD(Abs(a[1]), b[2])
                       g2 == GCD(Abs(b[1]), a[2])
                   IN  <<(a[1] \div g1) * (b[1] \div g2),
                         (a[2] \div g2) * (b[2] \div g1)>>
RDiv(a, b) == RMul(a, IF b[1] < 0 THEN <<-b[2], -b[1]>> ELSE <<b[2], b[1]>>)
RLt(a, b) == a[1] * b[2] < b[1] * a[2]
RLe(a, b) == a[1] * b[2] <= b[1] * a[2]
RAbs(a) == <<Abs(a[1]), a[2]>>
RMin(a, b) == IF RLe(a, b) THEN a ELSE b
RMax(a, b) == IF RLe(a, b) THEN b ELSE a

\* math.floor, math.ceil
floor(a) == a[1] \div a[2]
ceil(a) == -((-a[1]) \div a[2])
\* int(): truncation towards zero
int(a) == IF a[1] >= 0 THEN a[1] \div a[2] ELSE -((-a[1]) \div a[2])
\* round() of Python 2: halves are rounded away from zero
round(a) == IF a[1] >= 0 THEN floor(RAdd(a, Half)) ELSE -floor(RAdd(RNeg(a), Half))

RECURSIVE Pow2(_)
Pow2(k) == IF k = 0 THEN One
           ELSE IF k > 0 THEN RMul(R(2), Pow2(k - 1))
           ELSE RMul(Half, Pow2(k + 1))

RECURSIVE RSum(_)
RSum(s) == IF s = <<>> THEN Zero ELSE RAdd(Head(s), RSum(Tail(s)))

----------------------------------------------------------------------------
(* cairo matrices: x' = xx*x + xy*y + x0, y' = yx*x + yy*y + y0.           *)

Identity == [xx |-> One, yx |-> Zero, xy |-> Zero, yy |-> One,
             x0 |-> Zero, y0 |-> Zero]

\* cr.translate(tx, ty): the new user space is the old one shifted by (tx, ty)
translate(m, tx, ty) ==
    [m EXCEPT !.x0 = RAdd(RAdd(RMul(tx, m.xx), RMul(ty, m.xy)), m.x0),
              !.y0 = RAdd(RAdd(RMul(tx, m.yx), RMul(ty, m.yy)), m.y0)]

\* cr.rotate(angle), the angle given by its cosine c and sine s
rotate_matrix(m, c, s) ==
    [m EXCEPT !.xx = RAdd(RMul(c, m.xx), RMul(s, m.xy)),
              !.yx = RAdd(RMul(c, m.yx), RMul(s, m.yy)),
              !.xy = RSub(RMul(c, m.xy), RMul(s, m.xx)),
              !.yy = RSub(RMul(c, m.yy), RMul(s, m.yx))]

\* cr.scale(sx, sy)
scale_matrix(m, sx, sy) ==
    [m EXCEPT !.xx = RMul(sx, m.xx), !.yx = RMul(sx, m.yx),
              !.xy = RMul(sy, m.xy), !.yy = RMul(sy, m.yy)]

\* what cairo answers for a matrix it cannot invert (cairo.Error)
InvalidMatrix == [invalid |-> TRUE]

Det(m) == RSub(RMul(m.xx, m.yy), RMul(m.yx, m.xy))

\* cairo inverts the matrix to map device to user space; a singular matrix
\* is an error (cairo.Error: invalid matrix)
Invert(m) ==
    Only({IF d = Zero THEN InvalidMatrix
          ELSE Only({[xx |-> i[1], yx |-> i[2], xy |-> i[3], yy |-> i[4],
                      x0 |-> RNeg(RAdd(RMul(i[1], m.x0), RMul(i[3], m.y0))),
                      y0 |-> RNeg(RAdd(RMul(i[2], m.x0), RMul(i[4], m.y0)))] :
                     i \in {<<RDiv(m.yy, d), RNeg(RDiv(m.yx, d)),
                              RNeg(RDiv(m.xy, d)), RDiv(m.xx, d)>>}}) :
          d \in {Det(m)}})

Apply(m, p) == <<RAdd(RAdd(RMul(m.xx, p[1]), RMul(m.xy, p[2])), m.x0),
                 RAdd(RAdd(RMul(m.yx, p[1]), RMul(m.yy, p[2])), m.y0)>>

user_to_device(m, p) == IF m = InvalidMatrix THEN None ELSE Apply(m, p)
device_to_user(m, p) ==
    IF m = InvalidMatrix THEN None
    ELSE Only({IF inverse = InvalidMatrix THEN None ELSE Apply(inverse, p) :
               inverse \in {Invert(m)}})

----------------------------------------------------------------------------
(* The view transform.                                                     *)

\* self.rotation is <<q, b>>: q quarter turns (not reduced: 2*pi is not 0.0)
\* plus, when b = 1, the angle atan(4/3), whose cosine and sine are rational
RECURSIVE CosSin(_)
CosSin(rot) ==
    IF rot[1] = 0 THEN (IF rot[2] = 0 THEN <<One, Zero>> ELSE <<Rat(3, 5), Rat(4, 5)>>)
    ELSE IF rot[1] > 0
         THEN LET p == CosSin(<<rot[1] - 1, rot[2]>>) IN <<RNeg(p[2]), p[1]>>
         ELSE LET p == CosSin(<<rot[1] + 1, rot[2]>>) IN <<p[2], RNeg(p[1])>>

RotZero == <<0, 0>>

\* 2**0.01 and 2**-0.01, the band in which log(scale, 2) is "almost" whole
Pow2TolHi == Rat(1006956, 1000000)
Pow2TolLo == Rat(993092, 1000000)

\* round(log(scale, 2)) when log(scale, 2) is within 0.01 of it, for the
\* scale sc * 2^k, sc > 0; None when it is not
RECURSIVE almost_log2(_, _)
almost_log2(sc, k) ==
    IF RLe(RMul(R(2), Pow2TolLo), sc) THEN almost_log2(RMul(sc, Half), k + 1)
    ELSE IF RLe(sc, Pow2TolLo) THEN almost_log2(RMul(sc, R(2)), k - 1)
    ELSE IF RLt(sc, Pow2TolHi) THEN <<k>>
    ELSE None

\* lines 300-305: a scale that is almost a power of two is replaced by it
SnappedScale_NoPower(sc) ==
    LET e == almost_log2(sc, 0)
    IN  IF e = None THEN sc ELSE R(e[1])
SnappedScale(sc) ==
    LET e == almost_log2(sc, 0)
    IN  IF e = None THEN sc ELSE Pow2(e[1])

\* lines 319-323: m[0] = -m[0]; m[2] = -m[2]
mirror_matrix(m) == [m EXCEPT !.xx = RNeg(m.xx), !.xy = RNeg(m.xy)]

\* lines 313-317: (0,0) is moved onto an integer device pixel
pixel_align(m) ==
    Only({IF a = None THEN InvalidMatrix ELSE translate(m, a[1], a[2]) :
          a \in {device_to_user(m, <<R(round(o[1])), R(round(o[2]))>>) :
                    o \in {user_to_device(m, <<Zero, Zero>>)}}})

\* get_model_coordinates_cairo_context on the context matrix cr, for the
\* view state (tx, ty, sc, rot, mir)
\* view state (tx, ty, sc, rot, mir); log(scale, 2) raises for a scale <= 0
\* and no matrix is built
model_matrix(cr, tx, ty, sc, rot, mir) ==
    IF RLe(sc, Zero) THEN InvalidMatrix
    ELSE
    Only({IF m4 = InvalidMatrix THEN InvalidMatrix
          ELSE IF mir THEN mirror_matrix(m4) ELSE m4 :
          m4 \in {pixel_align(m3) :
          m3 \in {scale_matrix(m2, s, s) :
                    s \in {SnappedScale(sc)},
          m2 \in {rotate_matrix(m1, r[1], r[2]) :
                    r \in {CosSin(rot)},
          m1 \in {translate(cr, tx, ty)}}}}})

get_model_coordinates_cairo_context ==
    model_matrix(Identity, translation_x, translation_y, scale, rotation, mirrored)

is_translation_only == rotation = RotZero /\ scale = One /\ ~mirrored

\* lib/helpers.py clamp(x, lo, hi)
clamp(x, lo, hi) == IF RLt(x, lo) THEN lo ELSE IF RLt(hi, x) THEN hi ELSE x

----------------------------------------------------------------------------
(* Bounds and input sets of the view operations.                           *)

MaxOps == 3

WindowSizes == {<<101, 75>>}
ZoomSteps == {Rat(3, 2), Zero}
ZoomValues == {Rat(201, 200), R(8)}
AngleSteps == {1}                                       \* quarter turns
Angles == {<<0, 1>>}
ScrollSteps == {<<Rat(-5, 2), R(7)>>}
PointerPositions == {<<Rat(21, 2), Rat(61, 4)>>}

----------------------------------------------------------------------------
(* View operations.                                                        *)

\* gtk realizes the widget: self.window exists from then on
realize(sizes) ==
    /\ window = None
    /\ \E size \in sizes : window' = size
    /\ last' = [op |-> "realize"]
    /\ UNCHANGED <<inputVars, panelVars, current_size, viewVars, layerVars, has_pointer, blits, draws, painted, nops>>

enter_notify_cb ==
    /\ window # None /\ ~has_pointer
    /\ has_pointer' = TRUE
    /\ last' = [op |-> "enter_notify_cb"]
    /\ UNCHANGED <<inputVars, panelVars, current_size, viewVars, layerVars, window, blits, draws, painted,
                   nops>>

leave_notify_cb ==
    /\ window # None /\ has_pointer
    /\ has_pointer' = FALSE
    /\ last' = [op |-> "leave_notify_cb"]
    /\ UNCHANGED <<inputVars, panelVars, current_size, viewVars, layerVars, window, blits, draws, painted,
                   nops>>

\* gtk.Widget.queue_draw() and queue_draw_area(x, y, width, height), as the
\* entries of the log
queue_draw == [call |-> "queue_draw"]
queue_draw_area(x, y, width, height) ==
    [call |-> "queue_draw_area", area |-> <<x, y, width, height>>]

\* lines 472-486: what scroll(dx, dy) changes
scrolled(dx, dy) ==
    /\ translation_x' = RSub(translation_x, dx)
    /\ translation_y' = RSub(translation_y, dy)
    /\ draws' = Append(draws, queue_draw)

scroll(dx, dy) ==
    /\ window # None /\ nops < MaxOps
    /\ scrolled(dx, dy)
    /\ nops' = nops + 1
    /\ last' = [op |-> "scroll"]
    /\ UNCHANGED <<inputVars, panelVars, current_size, layerVars, scale, rotation, mirrored, zoom_min, zoom_max,
                   has_pointer, window, blits, painted>>

\* lines 115-117: dx/2 of two integers is the floor of the quotient
half(d) == R(d \div 2)

\* lines 109-117: gtk allocates a size <<width, height>>; the first
\* allocation finds no current_size and takes the new size for the old one
size_allocate_cb(sizes) ==
    /\ nops < MaxOps
    /\ \E new_size \in sizes :
          \E old_size \in {IF current_size = None THEN new_size
                           ELSE current_size} :
              /\ current_size' = new_size
              /\ IF new_size # old_size
                 THEN scrolled(half(old_size[1] - new_size[1]),
                               half(old_size[2] - new_size[2]))
                 ELSE UNCHANGED <<translation_x, translation_y, draws>>
              /\ last' = [op |-> "size_allocate_cb",
                          old |-> [size |-> current_size,
                                   translation |-> <<translation_x, translation_y>>],
                          older |-> IF last.op = "size_allocate_cb"
                                    THEN last.old
                                    ELSE [size |-> None, translation |-> None]]
    /\ nops' = nops + 1
    /\ UNCHANGED <<inputVars, panelVars, layerVars, scale, rotation, mirrored,
                   zoom_min, zoom_max, has_pointer, window, blits, painted>>

\* lines 489-493: the device point the operation is anchored at
rotozoom_center(at_pointer) ==
    IF at_pointer /\ has_pointer /\ last_event_x # None
    THEN <<last_event_x, last_event_y>>
    ELSE <<Rat(window[1], 2), Rat(window[2], 2)>>

\* line 497
clamped_scale_NoClamp(sc) == sc
clamped_scale(sc) == clamp(sc, zoom_min, zoom_max)

\* lines 498-501: the translation that puts the model point back
\* (left alone when the new scale raises in log)
recentred_OldMatrix(c, user, sc, rot, mir) ==
    Only({IF new = None THEN <<translation_x, translation_y>>
          ELSE <<RAdd(translation_x, RSub(c[1], new[1])),
                 RAdd(translation_y, RSub(c[2], new[2]))>> :
          new \in {user_to_device(get_model_coordinates_cairo_context, user)}})
recentred(c, user, sc, rot, mir) ==
    Only({IF new = None THEN <<translation_x, translation_y>>
          ELSE <<RAdd(translation_x, RSub(c[1], new[1])),
                 RAdd(translation_y, RSub(c[2], new[2]))>> :
          new \in {user_to_device(model_matrix(Identity, translation_x,
                                               translation_y, sc, rot, mir),
                                  user)}})

\* rotozoom_with_center(function, at_pointer); function() leaves
\* (f_scale, f_rotation, f_mirrored) in the three fields.  Without a window
\* the call raises before function() runs and nothing changes.
rotozoom_with_center(name, f_scale, f_rotation, f_mirrored, at_pointer) ==
    /\ window # None /\ nops < MaxOps
    /\ \E c \in {rotozoom_center(at_pointer)} :
       \E user \in {device_to_user(get_model_coordinates_cairo_context, c)} :
       \E sc \in {clamped_scale(f_scale)} :
       \E t \in {recentred(c, user, sc, f_rotation, f_mirrored)} :
           /\ scale' = sc
           /\ rotation' = f_rotation
           /\ mirrored' = f_mirrored
           /\ translation_x' = t[1]
           /\ translation_y' = t[2]
           /\ last' = [op |-> name, c |-> c, user |-> user, requested |-> f_scale]
    /\ draws' = Append(draws, queue_draw)
    /\ nops' = nops + 1
    /\ UNCHANGED <<inputVars, panelVars, current_size, layerVars, zoom_min, zoom_max, has_pointer, window,
                   blits, painted>>

zoom(steps) == \E zoom_step \in steps :
    rotozoom_with_center("zoom", RMul(scale, zoom_step), rotation, mirrored, TRUE)

set_zoom(values) == \E z \in values :
    rotozoom_with_center("set_zoom", z, rotation, mirrored, TRUE)

rotate(steps) == \E angle_step \in steps :
    rotozoom_with_center("rotate", scale, <<rotation[1] + angle_step, rotation[2]>>,
                         mirrored, FALSE)

set_rotation(angles) == \E angle \in angles :
    rotozoom_with_center("set_rotation", scale, angle, mirrored, FALSE)

mirror == rotozoom_with_center("mirror", scale, rotation, ~mirrored, FALSE)

set_mirrored(values) == \E b \in values :
    rotozoom_with_center("set_mirrored", scale, rotation, b, FALSE)

----------------------------------------------------------------------------
(* Repainting a device region.                                             *)

\* lib/tiledsurface.py: the tile size and the number of the last mipmap level
N == 64
MAX_MIPMAP_LEVEL == 3

max(a, b) == IF a >= b THEN a ELSE b
min(a, b) == IF a <= b THEN a ELSE b

\* int(ceil(log(x, 2))) for x > 0: the least k with 2^k >= x
RECURSIVE ceil_log2(_)
ceil_log2(x) ==
    IF RLt(One, x) THEN ceil_log2(RMul(x, Half)) + 1
    ELSE IF RLt(Half, x) THEN 0
    ELSE ceil_log2(RMul(x, R(2))) - 1

\* int(floor(log(x, 2))) for x > 0: the greatest k with 2^k <= x
RECURSIVE floor_log2(_)
floor_log2(x) ==
    IF RLt(x, One) THEN floor_log2(RMul(x, R(2))) - 1
    ELSE IF RLt(x, R(2)) THEN 0
    ELSE floor_log2(RMul(x, Half)) + 1

\* lines 369-372: choose best mipmap
mipmap_level_Floor(sc) ==
    min(max(0, floor_log2(RDiv(One, sc))), MAX_MIPMAP_LEVEL)
mipmap_level(sc) ==
    min(max(0, ceil_log2(RDiv(One, sc))), MAX_MIPMAP_LEVEL)

\* rectangles are <<x, y, w, h>>; a gdk region is a set of rectangles
\* lines 343-345
whole_window == <<0, 0, window[1], window[2]>>

\* gdk.Region.point_in
point_in(region, x, y) ==
    \E r \in region : /\ r[1] <= x /\ x < r[1] + r[3]
                      /\ r[2] <= y /\ y < r[2] + r[4]

\* gdk.Region.rect_in(bbox) == gdk.OVERLAP_RECTANGLE_OUT
rect_out(region, bbox) ==
    \A r \in region : \/ bbox[1] + bbox[3] <= r[1] \/ r[1] + r[3] <= bbox[1]
                      \/ bbox[2] + bbox[4] <= r[2] \/ r[2] + r[4] <= bbox[2]

\* line 350: w/2 and h/2 are integer divisions
is_sparse(gdk_clip_region, device_bbox) ==
    ~point_in(gdk_clip_region, device_bbox[1] + device_bbox[3] \div 2,
                               device_bbox[2] + device_bbox[4] \div 2)

\* the least and the greatest of a set of rationals
RMinOf(S) == CHOOSE a \in S : \A b \in S : RLe(a, b)
RMaxOf(S) == CHOOSE a \in S : \A b \in S : RLe(b, a)

corners_of(rect) ==
    {<<R(x), R(y)>> : x \in {rect[1], rect[1] + rect[3]},
                      y \in {rect[2], rect[2] + rect[4]}}

\* cr.clip_extents() after cr.rectangle(*device_bbox); cr.clip(): the
\* bounding box in user space of the clipped device rectangle
clip_extents(cr, device_bbox) ==
    Only({<<RMinOf({p[1] : p \in c}), RMinOf({p[2] : p \in c}),
            RMaxOf({p[1] : p \in c}), RMaxOf({p[2] : p \in c})>> :
          c \in {{device_to_user(cr, p) : p \in corners_of(device_bbox)}}})

\* lines 377-394: the pixbuf surface that is allocated for the region
model_bbox(cr, device_bbox) ==
    Only({<<b[1], b[2], b[3] - b[1] + 1, b[4] - b[2] + 1>> :
          b \in {<<floor(RSub(e[1], margin)), floor(RSub(e[2], margin)),
                   ceil(RAdd(e[3], margin)), ceil(RAdd(e[4], margin))>> :
                    e \in {clip_extents(cr, device_bbox)},
                    margin \in {IF is_translation_only THEN Zero ELSE One}}})

\* lib/pixbufsurface.py Surface.get_tiles: the tiles the surface touches
get_tiles(surface) ==
    {<<tx, ty>> : tx \in (surface[1] \div N)..((surface[1] + surface[3] - 1) \div N),
                  ty \in (surface[2] \div N)..((surface[2] + surface[4] - 1) \div N)}

\* lib/helpers.py rotated_rectangle_bbox: the integer rectangle around the
\* corners
rotated_rectangle_bbox(corners) ==
    Only({<<b[1], b[2], b[3] - b[1] + 1, b[4] - b[2] + 1>> :
          b \in {<<floor(RMinOf({p[1] : p \in corners})),
                   floor(RMinOf({p[2] : p \in corners})),
                   floor(RMaxOf({p[1] : p \in corners})),
                   floor(RMaxOf({p[2] : p \in corners}))>>}})

\* lines 426-435: the device rectangle a tile is tested with
tile_device_bbox_Unrotated(cr, tx, ty) ==
    Only({<<int(p[1]), int(p[2]), N, N>> :
          p \in {user_to_device(cr, <<R(tx * N), R(ty * N)>>)}})
tile_device_bbox(cr, tx, ty) ==
    IF is_translation_only
    THEN Only({<<int(p[1]), int(p[2]), N, N>> :
               p \in {user_to_device(cr, <<R(tx * N), R(ty * N)>>)}})
    ELSE rotated_rectangle_bbox(
             {user_to_device(cr, <<R(c[1]), R(c[2])>>) :
                 c \in {<<tx * N - 1, ty * N - 1>>, <<(tx + 1) * N, ty * N - 1>>,
                        <<tx * N - 1, (ty + 1) * N>>, <<(tx + 1) * N, (ty + 1) * N>>}})

\* lines 422-439: in sparse mode a tile outside the clip region is skipped
tile_skipped_AnyMode(cr, sparse, gdk_clip_region, tx, ty) ==
    rect_out(gdk_clip_region, tile_device_bbox(cr, tx, ty))
tile_skipped(cr, sparse, gdk_clip_region, tx, ty) ==
    sparse /\ rect_out(gdk_clip_region, tile_device_bbox(cr, tx, ty))

\* self.doc.layer: the current layer
doc_layer == doc.layers[doc.layer_idx + 1]

\* lines 334-340
get_visible_layers_All ==
    SelectSeq(doc.layers, LAMBDA l : l.visible)
get_visible_layers ==
    SelectSeq(IF ~show_layers_above
              THEN SubSeq(doc.layers, 1, doc.layer_idx + 1)
              ELSE doc.layers,
              LAMBDA l : l.visible)

\* lines 412-416: the layers and the background of the solo mode
solo_layers == IF current_layer_solo THEN <<doc_layer>> ELSE get_visible_layers
background ==
    IF current_layer_solo THEN "neutral_background_pixbuf" ELSE NoName

\* list.index: the first position of l (from 0); Python raises ValueError
\* when there is none
index(layers, l) ==
    (CHOOSE i \in 1..Len(layers) :
        layers[i] = l /\ \A j \in 1..(i - 1) : layers[j] # l) - 1

\* list.insert(i, l)
insert(layers, i, l) ==
    SubSeq(layers, 1, i) \o <<l>> \o SubSeq(layers, i + 1, Len(layers))

\* line 419: layers.index(self.doc.layer) raises
index_raises ==
    /\ overlay_layer # None
    /\ \A i \in 1..Len(solo_layers) : solo_layers[i] # doc_layer

\* lines 405-420: the layers handed to blit_tile_into
composited_layers ==
    IF overlay_layer = None THEN solo_layers
    ELSE insert(solo_layers, index(solo_layers, doc_layer) + 1, overlay_layer[1])

\* repaint(device_bbox) while the window's clip region is gdk_clip_region;
\* expose_cb calls it with the area of the expose event.  Without a window,
\* self.window is None and the first use of it (line 344 or 348) raises;
\* with an overlay layer and the current layer not among the layers to
\* show, layers.index (line 419) raises before any tile is blitted.
repaint(device_bbox_arg, gdk_clip_region) ==
    /\ IF window = None
       THEN /\ last' = [op |-> "repaint", raised |-> "AttributeError"]
            /\ UNCHANGED <<blits, painted>>
       ELSE IF index_raises
       THEN /\ last' = [op |-> "repaint", raised |-> "ValueError"]
            /\ UNCHANGED <<blits, painted>>
       ELSE /\ last' = [op |-> "repaint", raised |-> NoName]
            /\ \E device_bbox \in {IF device_bbox_arg = None THEN whole_window
                                   ELSE device_bbox_arg} :
               \E level \in {mipmap_level(scale)} :
               \E cr \in {scale_matrix(get_model_coordinates_cairo_context,
                                       Pow2(level), Pow2(level))} :
               \E surface \in {model_bbox(cr, device_bbox)} :
               \E sparse \in {is_sparse(gdk_clip_region, device_bbox)} :
               \E tiles \in {get_tiles(surface)} :
               \E blitted \in {{t \in tiles :
                                  ~tile_skipped(cr, sparse, gdk_clip_region, t[1], t[2])}} :
                   /\ painted' = [done |-> TRUE, device_bbox |-> device_bbox,
                                  gdk_clip_region |-> gdk_clip_region, sparse |-> sparse,
                                  scale |-> scale, mipmap_level |-> level, cr |-> cr,
                                  translation_only |-> is_translation_only,
                                  surface |-> surface, tiles |-> tiles,
                                  layers |-> composited_layers,
                                  background |-> background]
                   /\ blits' = {[tx |-> t[1], ty |-> t[2], mipmap_level |-> level] :
                                   t \in blitted}
    /\ UNCHANGED <<inputVars, panelVars, current_size, viewVars, layerVars, has_pointer, window, draws, nops>>

\* lines 282-284: the corners of the modified rectangle, as pixel positions
modified_corners(x1, y1, w, h) ==
    {<<R(x1), R(y1)>>, <<R(x1 + w - 1), R(y1)>>,
     <<R(x1), R(y1 + h - 1)>>, <<R(x1 + w - 1), R(y1 + h - 1)>>}

\* lines 276-287: the device rectangle queued for a modified model rectangle
modified_area(x1, y1, w, h) ==
    IF is_translation_only
    THEN Only({<<int(p[1]), int(p[2]), w, h>> :
               p \in {user_to_device(get_model_coordinates_cairo_context,
                                     <<R(x1), R(y1)>>)}})
    ELSE Only({rotated_rectangle_bbox({user_to_device(cr, p) :
                   p \in modified_corners(x1, y1, w, h)}) :
               cr \in {get_model_coordinates_cairo_context}})

\* lines 267-287: what one notification queues
invalidations_NoSentinel(x1, y1, w, h) ==
    IF window = None
    THEN <<>>
    ELSE Only({<<queue_draw_area(a[1], a[2], a[3], a[4])>> :
               a \in {modified_area(x1, y1, w, h)}})
invalidations(x1, y1, w, h) ==
    IF window = None
    THEN <<>>
    ELSE IF w = 0 /\ h = 0
    THEN <<queue_draw>>
    ELSE Only({<<queue_draw_area(a[1], a[2], a[3], a[4])>> :
               a \in {modified_area(x1, y1, w, h)}})

\* canvas_modified_cb(x1, y1, w, h), called by the document for each change
canvas_modified_cb(x1, y1, w, h) ==
    /\ nops < MaxOps
    /\ \E queued \in {invalidations(x1, y1, w, h)} : draws' = draws \o queued
    /\ nops' = nops + 1
    /\ last' = [op |-> "canvas_modified_cb", rect |-> <<x1, y1, w, h>>]
    /\ UNCHANGED <<inputVars, panelVars, current_size, viewVars, layerVars, has_pointer, window, blits, painted>>

----------------------------------------------------------------------------
(* Input events.                                                           *)

MaxEvents == 4

Range(f) == {f[i] : i \in DOMAIN f}

\* event.device.name: two tablets of the same model report the same name
DeviceName(device) ==
    IF device \in {"tabletA", "tabletB"} THEN "Wacom Intuos3 6x8" ELSE "Core Pointer"

\* the pressure mapping installed by the application, when there is one
PressureMap(p) == RAdd(Rat(1, 4), RMul(Half, p))

\* lines 131-136: None for a first sample, else the seconds elapsed
dtime_of_NoneOnly(event) ==
    IF last_event_time # None
    THEN RDiv(RSub(event.time, last_event_time), R(1000))
    ELSE None
dtime_of(event) ==
    IF last_event_time # None /\ last_event_time # Zero
    THEN RDiv(RSub(event.time, last_event_time), R(1000))
    ELSE None

\* line 153
bad_pressure(pressure) ==
    pressure # None /\ (RLt(One, pressure) \/ RLt(pressure, Zero))

\* line 154: a warning is due
warning_due_Always(event) == bad_pressure(event.pressure)
warning_due(event) ==
    /\ bad_pressure(event.pressure)
    /\ DeviceName(event.device) \notin Range(bad_devices)

\* lines 157-160: "infinite" pressure is no pressure
valid_pressure_Band1(pressure) ==
    IF bad_pressure(pressure) THEN None ELSE pressure
valid_pressure(pressure) ==
    IF bad_pressure(pressure) /\ (RLt(R(1000), pressure) \/ RLt(pressure, R(-1000)))
    THEN None
    ELSE pressure

\* lines 162-169: without pressure information the button state decides
button_pressure_EventState(event, button1_pressed) ==
    IF event.button1 THEN Half ELSE Zero
button_pressure(event, button1_pressed) ==
    IF (IF button1_pressed = None THEN event.button1 ELSE button1_pressed[1])
    THEN Half
    ELSE Zero

\* lines 162-171: whether the sample had pressure information
had_pressure_info_Reported(event) == event.pressure # None
had_pressure_info(event) == valid_pressure(event.pressure) # None

\* lines 151-212: the pressure of the stroke sample
sample_pressure(event, button1_pressed) ==
    LET p1 == valid_pressure(event.pressure)
        p2 == IF p1 = None THEN button_pressure(event, button1_pressed) ELSE p1
        p3 == IF event.ctrl THEN Zero ELSE p2
        p4 == IF pressure_mapping # NoName THEN PressureMap(p3) ELSE p3
    IN  IF event.shift THEN Zero ELSE p4

\* lines 173-182
sample_tilt_PerAxis(event) ==
    <<IF \/ event.xtilt = None
         \/ RLt(R(1000), event.xtilt) \/ RLt(event.xtilt, R(-1000))
      THEN Zero ELSE event.xtilt,
      IF \/ event.ytilt = None
         \/ RLt(R(1000), event.ytilt) \/ RLt(event.ytilt, R(-1000))
      THEN Zero ELSE event.ytilt>>
sample_tilt(event) ==
    IF \/ event.xtilt = None \/ event.ytilt = None
       \/ RLt(R(1000), event.xtilt) \/ RLt(event.xtilt, R(-1000))
       \/ RLt(R(1000), event.ytilt) \/ RLt(event.ytilt, R(-1000))
    THEN <<Zero, Zero>>
    ELSE <<event.xtilt, event.ytilt>>

\* lines 222-224
clamped_dtime_NoClamp(dtime) == dtime
clamped_dtime(dtime) == IF RLt(dtime, Zero) THEN Zero ELSE dtime

\* lines 231-236: the time given to each replayed sample
replay_step_PerBuffered(dtime, n) ==
    RDiv(IF RLt(Rat(1, 10), dtime) THEN Rat(1, 10) ELSE dtime, R(n))
replay_step_NoCap(dtime, n) == RDiv(dtime, R(n + 1))
replay_step(dtime, n) ==
    RDiv(IF RLt(Rat(1, 10), dtime) THEN Rat(1, 10) ELSE dtime, R(n + 1))

\* lines 237-239: the stroke_to calls of the replay
replayed_Reversed(step) ==
    [i \in 1..Len(motions) |-> [dtime |-> step, data |-> motions[Len(motions) + 1 - i]]]
replayed(step) ==
    [i \in 1..Len(motions) |-> [dtime |-> step, data |-> motions[i]]]

\* lines 225-241: buffer the sample, or replay the buffer and emit it
\* <<motions', stroke_to calls made>>
emit_KeepsBuffer(dtime, data) ==
    IF dtime = Zero THEN <<Append(motions, data), <<>>>>
    ELSE IF RLt(Zero, dtime)
    THEN IF motions # <<>>
         THEN LET step == replay_step(dtime, Len(motions))
                  rest == RSub(dtime, RMul(R(Len(motions)), step))
              IN  <<motions, replayed(step) \o <<[dtime |-> rest, data |-> data]>>>>
         ELSE <<motions, <<[dtime |-> dtime, data |-> data]>>>>
    ELSE <<motions, <<>>>>

emit(dtime, data) ==
    IF dtime = Zero THEN <<Append(motions, data), <<>>>>
    ELSE IF RLt(Zero, dtime)
    THEN IF motions # <<>>
         THEN LET step == replay_step(dtime, Len(motions))
                  rest == RSub(dtime, RMul(R(Len(motions)), step))
              IN  <<<<>>, replayed(step) \o <<[dtime |-> rest, data |-> data]>>>>
         ELSE <<motions, <<[dtime |-> dtime, data |-> data]>>>>
    ELSE <<motions, <<>>>>

\* motion_notify_cb(widget, event, button1_pressed); the caller says which
\* handler delivered the event.  data.id is the number of the event the
\* sample came from; it is not passed to stroke_to.
motion_notify_cb(handler, event, button1_pressed) ==
    LET dtime == dtime_of(event) IN
    IF ~is_sensitive
    THEN /\ last' = [op |-> handler, path |-> "insensitive", event |-> event]
         /\ UNCHANGED <<last_event_time, last_event_x, last_event_y,
                        last_event_device, last_event_had_pressure_info,
                        last_painting_pos, bad_devices, motions, strokes,
                        warnings, dragcalls>>
    ELSE
    /\ last_event_device' = event.device
    /\ last_event_x' = event.x
    /\ last_event_y' = event.y
    /\ last_event_time' = event.time
    /\ IF dtime = None
       THEN /\ last' = [op |-> handler, path |-> "first", event |-> event]
            /\ UNCHANGED <<last_event_had_pressure_info, last_painting_pos,
                           bad_devices, motions, strokes, warnings, dragcalls>>
       ELSE IF dragfunc # NoName
       THEN /\ dragcalls' = Append(dragcalls,
                                   [f |-> dragfunc,
                                    dx |-> RSub(event.x, last_event_x),
                                    dy |-> RSub(event.y, last_event_y)])
            /\ last' = [op |-> handler, path |-> "drag", event |-> event]
            /\ UNCHANGED <<last_event_had_pressure_info, last_painting_pos,
                           bad_devices, motions, strokes, warnings>>
       ELSE
       \* line 148-149: cr = self.get_model_coordinates_cairo_context();
       \* x, y = cr.device_to_user(event.x, event.y), computed once
       \E xy \in {device_to_user(get_model_coordinates_cairo_context,
                                 <<event.x, event.y>>)} :
       LET pressure == sample_pressure(event, button1_pressed)
           tilt == sample_tilt(event)
           data == [id |-> nevents + 1, x |-> xy[1], y |-> xy[2],
                    pressure |-> pressure, xtilt |-> tilt[1], ytilt |-> tilt[2]]
       IN  \E out \in {emit(clamped_dtime(dtime), data)} :
           /\ bad_devices' = IF warning_due(event)
                             THEN Append(bad_devices, DeviceName(event.device))
                             ELSE bad_devices
           /\ warnings' = IF warning_due(event)
                          THEN Append(warnings, [device |-> event.device,
                                                 id |-> nevents + 1])
                          ELSE warnings
           /\ last_event_had_pressure_info' = had_pressure_info(event)
           /\ last_painting_pos' = IF pressure # Zero THEN <<xy[1], xy[2]>>
                                   ELSE last_painting_pos
           /\ motions' = out[1]
           /\ strokes' = strokes \o out[2]
           /\ last' = [op |-> handler, path |-> "paint", event |-> event,
                       dtime |-> dtime, button1_pressed |-> button1_pressed,
                       buffered |-> motions, calls |-> out[2]]
           /\ UNCHANGED dragcalls

\* an input event as the handlers read it: event.time (ms), event.x/.y,
\* (all three kept as rationals)
\* event.device, the pressure and tilt axes (None when the device has none),
\* the button-1 and modifier bits of event.state, and for button events
\* event.type and event.button
Event(time, xy, device, pressure, button1, ctrl, shift, type, button) ==
    [time |-> R(time), x |-> xy[1], y |-> xy[2], device |-> device,
     pressure |-> pressure, xtilt |-> None, ytilt |-> None,
     button1 |-> button1, ctrl |-> ctrl, shift |-> shift,
     type |-> type, button |-> button]

inputFrame == <<is_sensitive, dragfunc, pressure_mapping, streamOpen, viewVars,
                layerVars, panelVars, current_size,
                has_pointer, window, blits, draws, painted, nops>>

\* gtk delivers a motion-notify-event
motion_notify_event(Events, limit) ==
    /\ window # None /\ streamOpen /\ nevents < limit
    /\ \E event \in Events : motion_notify_cb("motion_notify_cb", event, None)
    /\ nevents' = nevents + 1
    /\ paths' = Append(paths, [path |-> last'.path, event |-> last'.event])
    /\ UNCHANGED <<inputFrame, lines>>

\* lines 250-252: shift-click draws a straight line from the last painting
\* position to the pointer
straight_line_calls(event) ==
    IF event.shift /\ last_painting_pos # None
    THEN <<[src |-> last_painting_pos,
            dst |-> device_to_user(get_model_coordinates_cairo_context,
                                   <<event.x, event.y>>)]>>
    ELSE <<>>

\* the handler does nothing to the input state
no_sample(handler, event) ==
    /\ last' = [op |-> handler, path |-> "none", event |-> event]
    /\ UNCHANGED <<last_event_time, last_event_x, last_event_y,
                   last_event_device, last_event_had_pressure_info,
                   last_painting_pos, bad_devices, motions, strokes,
                   warnings, dragcalls>>

button_press_cb(Events, limit) ==
    /\ window # None /\ streamOpen /\ nevents < limit
    /\ \E event \in Events :
         IF event.type # "BUTTON_PRESS"
         THEN no_sample("button_press_cb", event) /\ UNCHANGED lines
         ELSE IF event.button = 1
         THEN /\ lines' = lines \o straight_line_calls(event)
              /\ IF ~last_event_had_pressure_info
                 THEN motion_notify_cb("button_press_cb", event, <<TRUE>>)
                 ELSE no_sample("button_press_cb", event)
         ELSE no_sample("button_press_cb", event) /\ UNCHANGED lines
    /\ nevents' = nevents + 1
    /\ paths' = Append(paths, [path |-> last'.path, event |-> last'.event])
    /\ UNCHANGED inputFrame

button_release_cb(Events, limit) ==
    /\ window # None /\ streamOpen /\ nevents < limit
    /\ \E event \in Events :
         IF event.button = 1 /\ ~last_event_had_pressure_info
         THEN motion_notify_cb("button_release_cb", event, <<FALSE>>)
         ELSE no_sample("button_release_cb", event)
    /\ nevents' = nevents + 1
    /\ paths' = Append(paths, [path |-> last'.path, event |-> last'.event])
    /\ UNCHANGED <<inputFrame, lines>>

controlFrame == <<last_event_time, last_event_x, last_event_y, last_event_device,
                  last_event_had_pressure_info, last_painting_pos,
                  pressure_mapping, bad_devices, motions, strokes, warnings,
                  dragcalls, lines, nevents, paths, viewVars, layerVars, panelVars,
                  current_size, has_pointer,
                  window,
                  blits, draws, painted, nops>>

DragFuncs == {"pan", "rotate"}

\* lines 529-530
start_drag(dragfuncs) ==
    /\ \E f \in dragfuncs :
          /\ dragfunc' = f
          /\ last' = [op |-> "start_drag", f |-> f, active |-> dragfunc]
    /\ UNCHANGED <<controlFrame, is_sensitive, streamOpen>>

\* lines 531-533: a callback that is not the active one is ignored
stop_drag_Any(f) == NoName

stop_drag_to(f) == IF dragfunc = f THEN NoName ELSE dragfunc

stop_drag(dragfuncs) ==
    /\ \E f \in dragfuncs :
          /\ dragfunc' = stop_drag_to(f)
          /\ last' = [op |-> "stop_drag", f |-> f, active |-> dragfunc]
    /\ UNCHANGED <<controlFrame, is_sensitive, streamOpen>>

set_sensitive ==
    /\ is_sensitive' = ~is_sensitive
    /\ last' = [op |-> "set_sensitive"]
    /\ UNCHANGED <<controlFrame, dragfunc, streamOpen>>

\* lines 559-561
toggle_show_layers_above ==
    /\ nops < MaxOps
    /\ show_layers_above' = ~show_layers_above
    /\ draws' = Append(draws, queue_draw)
    /\ nops' = nops + 1
    /\ last' = [op |-> "toggle_show_layers_above"]
    /\ UNCHANGED <<inputVars, panelVars, current_size, viewVars, current_layer_solo, overlay_layer, doc,
                   has_pointer, window, blits, painted>>

\* the application switches the solo mode (widget.current_layer_solo)
set_current_layer_solo ==
    /\ nops < MaxOps
    /\ current_layer_solo' = ~current_layer_solo
    /\ nops' = nops + 1
    /\ last' = [op |-> "set_current_layer_solo"]
    /\ UNCHANGED <<inputVars, panelVars, current_size, viewVars, show_layers_above, overlay_layer, doc,
                   has_pointer, window, blits, draws, painted>>

\* the application sets or removes the overlay layer (widget.overlay_layer,
\* None or <<the layer>>)
set_overlay_layer ==
    /\ nops < MaxOps
    /\ overlay_layer' = IF overlay_layer = None
                        THEN <<[name |-> 0, visible |-> TRUE]>> ELSE None
    /\ nops' = nops + 1
    /\ last' = [op |-> "set_overlay_layer"]
    /\ UNCHANGED <<inputVars, panelVars, current_size, viewVars, current_layer_solo, show_layers_above,
                   doc, has_pointer, window, blits, draws, painted>>

\* the document selects another layer (doc.layer_idx, doc.layer)
select_layer ==
    /\ nops < MaxOps
    /\ \E idx \in 0..(Len(doc.layers) - 1) :
           idx # doc.layer_idx /\ doc' = [doc EXCEPT !.layer_idx = idx]
    /\ nops' = nops + 1
    /\ last' = [op |-> "select_layer"]
    /\ UNCHANGED <<inputVars, panelVars, current_size, viewVars, current_layer_solo, show_layers_above,
                   overlay_layer, has_pointer, window, blits, draws, painted>>

\* the document shows or hides a layer (layer.visible)
set_layer_visible ==
    /\ nops < MaxOps
    /\ \E i \in 1..Len(doc.layers) :
           doc' = [doc EXCEPT !.layers[i].visible = ~doc.layers[i].visible]
    /\ nops' = nops + 1
    /\ last' = [op |-> "set_layer_visible"]
    /\ UNCHANGED <<inputVars, panelVars, current_size, viewVars, current_layer_solo, show_layers_above,
                   overlay_layer, has_pointer, window, blits, draws, painted>>

\* the application installs its pressure mapping (widget.pressure_mapping,
\* None after construction)
set_pressure_mapping ==
    /\ pressure_mapping = NoName
    /\ pressure_mapping' = "mapping"
    /\ last' = [op |-> "set_pressure_mapping"]
    /\ UNCHANGED <<is_sensitive, last_event_time, last_event_x, last_event_y,
                   last_event_device, last_event_had_pressure_info,
                   last_painting_pos, dragfunc, bad_devices, motions, strokes,
                   warnings, dragcalls, lines, nevents, paths, streamOpen,
                   viewVars, layerVars, panelVars, current_size, has_pointer,
                   window, blits, draws, painted, nops>>

\* the input source delivers nothing more (the pen leaves the tablet, the
\* pointer leaves the window, the application goes idle)
end_of_stream ==
    /\ streamOpen /\ nevents > 0
    /\ streamOpen' = FALSE
    /\ last' = [op |-> "end_of_stream"]
    /\ UNCHANGED <<controlFrame, is_sensitive, dragfunc>>

----------------------------------------------------------------------------
(* The layers panel (src/gui/layerswindow.py): LayersTool shows the mode   *)
(* and the opacity of the current layer in a combo box and a scale, and     *)
(* writes the user's changes of them back to the document model.  All of    *)
(* it runs on one thread; a callback called from inside another one is a    *)
(* frame on top of the call stack.                                          *)

Modes == {"normal", "multiply"}

\* opacities in percent, as the scale shows them
Opacities == {50, 100}

Layers == [mode : Modes, opacity : Opacities]

\* names of layer properties a change notification can carry
Properties == {"mode", "opacity", "name"}

Frame(fn, current, changed) ==
    [fn |-> fn, pc |-> 1, current |-> current, changed |-> changed]

top == stack[Len(stack)]

running(fn) == stack # <<>> /\ top.fn = fn

goto(pc) == [stack EXCEPT ![Len(stack)].pc = pc]

return == SubSeq(stack, 1, Len(stack) - 1)

call_from(pc, fn) == Append(goto(pc), Frame(fn, TRUE, {}))

ModelUpdateCallbacks ==
    {"_show_cb", "_current_path_updated_cb", "_layer_propchange_cb"}

UpdateFunctions ==
    {"_update_all", "_update_context_menu", "_update_layer_mode_combo",
     "_update_opacity_scale"}

\* some frame of the stack belongs to one of the functions fns
on_stack(fns) == \E i \in 1..Len(stack) : stack[i].fn \in fns

panelFrame == <<inputVars, viewVars, layerVars, current_size, has_pointer,
                window, blits, draws, painted, nops, last, ncallbacks>>

\* lines 232-235 and 239-243: both callbacks set the flag, update every
\* widget and clear the flag
update_all_cb(fn) ==
    /\ running(fn)
    /\ IF top.pc = 1
       THEN /\ _processing_model_updates' = TRUE
            /\ stack' = call_from(2, "_update_all")
       ELSE /\ _processing_model_updates' = FALSE
            /\ stack' = return
    /\ UNCHANGED <<panelFrame, _layer_mode_combo, _opacity_scale, rootstack,
                   modelcalls, assertion_failed>>

_show_cb == update_all_cb("_show_cb")

_current_path_updated_cb == update_all_cb("_current_path_updated_cb")

\* lines 245-256: the test of line 246 only logs; the callback goes on
_layer_propchange_cb ==
    /\ running("_layer_propchange_cb")
    /\ CASE top.pc = 1 ->
              IF ~top.current
              THEN /\ stack' = return
                   /\ UNCHANGED _processing_model_updates
              ELSE /\ _processing_model_updates' = TRUE
                   /\ stack' = goto(2)
         [] top.pc = 2 ->
              /\ stack' = IF "mode" \in top.changed
                          THEN call_from(3, "_update_layer_mode_combo")
                          ELSE goto(3)
              /\ UNCHANGED _processing_model_updates
         [] top.pc = 3 ->
              /\ stack' = IF "opacity" \in top.changed \/ "mode" \in top.changed
                          THEN call_from(4, "_update_opacity_scale")
                          ELSE goto(4)
              /\ UNCHANGED _processing_model_updates
         [] top.pc = 4 ->
              /\ _processing_model_updates' = FALSE
              /\ stack' = return
    /\ UNCHANGED <<panelFrame, _layer_mode_combo, _opacity_scale, rootstack,
                   modelcalls, assertion_failed>>

\* "assert self._processing_model_updates" at the head of an update
\* function: the AssertionError leaves the update functions and the callback
\* that called them, none of which catches it or touches the flag on the
\* way out; the caller of that callback (gtk, the layer stack) swallows it
\* or lets it go on through the callbacks further out
asserted(then_stack) ==
    IF _processing_model_updates
    THEN stack' = then_stack /\ UNCHANGED assertion_failed
    ELSE /\ \E k \in {i \in 1..Len(stack) : stack[i].fn \notin UpdateFunctions} :
               stack' = SubSeq(stack, 1, k - 1)
         /\ assertion_failed' = TRUE

\* lines 260-264
_update_all ==
    /\ running("_update_all")
    /\ CASE top.pc = 1 -> asserted(call_from(2, "_update_context_menu"))
         [] top.pc = 2 ->
              /\ stack' = call_from(3, "_update_layer_mode_combo")
              /\ UNCHANGED assertion_failed
         [] top.pc = 3 ->
              /\ stack' = call_from(4, "_update_opacity_scale")
              /\ UNCHANGED assertion_failed
         [] top.pc = 4 -> stack' = return /\ UNCHANGED assertion_failed
    /\ UNCHANGED <<panelFrame, _processing_model_updates, _layer_mode_combo,
                   _opacity_scale, rootstack, modelcalls>>

\* lines 311-328: at pc 2 the calls of the ui manager are under way
_update_context_menu ==
    /\ running("_update_context_menu")
    /\ IF top.pc = 1
       THEN asserted(goto(2))
       ELSE stack' = return /\ UNCHANGED assertion_failed
    /\ UNCHANGED <<panelFrame, _processing_model_updates, _layer_mode_combo,
                   _opacity_scale, rootstack, modelcalls>>

\* lines 266-289: at pc 2 the combo box is made sensitive and its rows are
\* updated, then set_active_iter makes the mode of the current layer the
\* active row, and the combo box emits "changed" if that is another row; at
\* pc 3 the tooltip is set
_update_layer_mode_combo ==
    /\ running("_update_layer_mode_combo")
    /\ CASE top.pc = 1 -> asserted(goto(2)) /\ UNCHANGED _layer_mode_combo
         [] top.pc = 2 ->
              /\ _layer_mode_combo' = rootstack.mode
              /\ stack' = IF _layer_mode_combo # rootstack.mode
                          THEN call_from(3, "_layer_mode_combo_changed_cb")
                          ELSE goto(3)
              /\ UNCHANGED assertion_failed
         [] top.pc = 3 ->
              stack' = return /\ UNCHANGED <<assertion_failed, _layer_mode_combo>>
    /\ UNCHANGED <<panelFrame, _processing_model_updates, _opacity_scale,
                   rootstack, modelcalls>>

\* lines 291-309: at pc 2 the scale is made sensitive, then set_value shows
\* the opacity of the current layer, and the scale emits "value-changed" if
\* that is another value; at pc 3 the tooltip is set
_update_opacity_scale ==
    /\ running("_update_opacity_scale")
    /\ CASE top.pc = 1 -> asserted(goto(2)) /\ UNCHANGED _opacity_scale
         [] top.pc = 2 ->
              /\ _opacity_scale' = rootstack.opacity
              /\ stack' = IF _opacity_scale # rootstack.opacity
                          THEN call_from(3, "_opacity_scale_changed_cb")
                          ELSE goto(3)
              /\ UNCHANGED assertion_failed
         [] top.pc = 3 ->
              stack' = return /\ UNCHANGED <<assertion_failed, _opacity_scale>>
    /\ UNCHANGED <<panelFrame, _processing_model_updates, _layer_mode_combo,
                   rootstack, modelcalls>>

\* a call of the document model made by the panel, and whether widgets were
\* being updated from the model at that time
modelcall(f, arg) ==
    [f |-> f, arg |-> arg, updating |-> on_stack(UpdateFunctions)]

\* lines 353 and 362: the widget callbacks return at once while the flag is
\* set
skipped == _processing_model_updates

\* lines 352-358: at pc 2 set_current_layer_opacity and
\* scroll_to_current_layer are under way
_opacity_scale_changed_cb ==
    /\ running("_opacity_scale_changed_cb")
    /\ IF top.pc = 1 /\ ~skipped
       THEN /\ modelcalls' = modelcalls \cup
                   {modelcall("set_current_layer_opacity", _opacity_scale)}
            /\ rootstack' = [rootstack EXCEPT !.opacity = _opacity_scale]
            /\ stack' = goto(2)
       ELSE /\ stack' = return
            /\ UNCHANGED <<modelcalls, rootstack>>
    /\ UNCHANGED <<panelFrame, _processing_model_updates, _layer_mode_combo,
                   _opacity_scale, assertion_failed>>

\* lines 360-371: at pc 2 set_current_layer_mode is under way
_layer_mode_combo_changed_cb ==
    /\ running("_layer_mode_combo_changed_cb")
    /\ IF top.pc = 1 /\ ~skipped /\ rootstack.mode # _layer_mode_combo
       THEN /\ modelcalls' = modelcalls \cup
                   {modelcall("set_current_layer_mode", _layer_mode_combo)}
            /\ rootstack' = [rootstack EXCEPT !.mode = _layer_mode_combo]
            /\ stack' = goto(2)
       ELSE /\ stack' = return
            /\ UNCHANGED <<modelcalls, rootstack>>
    /\ UNCHANGED <<panelFrame, _processing_model_updates, _layer_mode_combo,
                   _opacity_scale, assertion_failed>>

\* The panel's callbacks are called by gtk and by the layer stack.  A call
\* can be made when the panel is idle, and from inside a call the panel makes
\* on a widget, on the ui manager or on the document model: these are the
\* places where control is outside the panel's code.
ExternalCalls ==
    {<<"_update_context_menu", 2>>, <<"_update_layer_mode_combo", 2>>,
     <<"_update_layer_mode_combo", 3>>, <<"_update_opacity_scale", 2>>,
     <<"_update_opacity_scale", 3>>, <<"_opacity_scale_changed_cb", 2>>,
     <<"_layer_mode_combo_changed_cb", 2>>}

\* how many model-update callbacks may be on the stack at once
MaxNesting == 2

nesting == Cardinality({i \in 1..Len(stack) : stack[i].fn \in ModelUpdateCallbacks})

deliverable ==
    /\ IF stack = <<>> THEN TRUE ELSE <<top.fn, top.pc>> \in ExternalCalls
    /\ ncallbacks < MaxOps
    /\ nesting < MaxNesting

\* line 230: gtk shows the panel
show ==
    /\ deliverable
    /\ stack' = Append(stack, Frame("_show_cb", TRUE, {}))
    /\ ncallbacks' = ncallbacks + 1
    /\ UNCHANGED <<inputVars, viewVars, layerVars, current_size, has_pointer,
                   window, blits, draws, painted, nops, last,
                   _processing_model_updates, _layer_mode_combo,
                   _opacity_scale, modelcalls, assertion_failed, rootstack>>

\* line 228: another layer becomes the current one
current_path_updated ==
    /\ deliverable
    /\ \E layer \in Layers : rootstack' = layer
    /\ stack' = Append(stack, Frame("_current_path_updated_cb", TRUE, {}))
    /\ ncallbacks' = ncallbacks + 1
    /\ UNCHANGED <<inputVars, viewVars, layerVars, current_size, has_pointer,
                   window, blits, draws, painted, nops, last,
                   _processing_model_updates, _layer_mode_combo,
                   _opacity_scale, modelcalls, assertion_failed>>

\* line 227: properties of a layer have changed, of the current layer or of
\* another one; changed names at least the properties that differ
layer_properties_changed ==
    /\ deliverable
    /\ \E current \in BOOLEAN, changed \in (SUBSET Properties) \ {{}},
          layer \in Layers :
          /\ layer.mode # rootstack.mode => (current /\ "mode" \in changed)
          /\ layer.opacity # rootstack.opacity =>
                 (current /\ "opacity" \in changed)
          /\ rootstack' = layer
          /\ stack' = Append(stack,
                             Frame("_layer_propchange_cb", current, changed))
    /\ ncallbacks' = ncallbacks + 1
    /\ UNCHANGED <<inputVars, viewVars, layerVars, current_size, has_pointer,
                   window, blits, draws, painted, nops, last,
                   _processing_model_updates, _layer_mode_combo,
                   _opacity_scale, modelcalls, assertion_failed>>

\* lines 222-223: the user moves the opacity scale
opacity_scale_moved ==
    /\ stack = <<>> /\ ncallbacks < MaxOps
    /\ \E value \in {0} \cup Opacities :
          value # _opacity_scale /\ _opacity_scale' = value
    /\ stack' = Append(stack, Frame("_opacity_scale_changed_cb", TRUE, {}))
    /\ ncallbacks' = ncallbacks + 1
    /\ UNCHANGED <<inputVars, viewVars, layerVars, current_size, has_pointer,
                   window, blits, draws, painted, nops, last,
                   _processing_model_updates, _layer_mode_combo,
                   modelcalls, assertion_failed, rootstack>>

\* lines 224-225: the user chooses a mode in the combo box
layer_mode_chosen ==
    /\ stack = <<>> /\ ncallbacks < MaxOps
    /\ \E mode \in Modes :
          mode # _layer_mode_combo /\ _layer_mode_combo' = mode
    /\ stack' = Append(stack, Frame("_layer_mode_combo_changed_cb", TRUE, {}))
    /\ ncallbacks' = ncallbacks + 1
    /\ UNCHANGED <<inputVars, viewVars, layerVars, current_size, has_pointer,
                   window, blits, draws, painted, nops, last,
                   _processing_model_updates, _opacity_scale,
                   modelcalls, assertion_failed, rootstack>>

----------------------------------------------------------------------------
(* The widget after __init__ (lines 56-95).                                *)

Init ==
    /\ is_sensitive = TRUE
    /\ last_event_time = None /\ last_event_x = None /\ last_event_y = None
    /\ last_event_device = NoName
    /\ last_event_had_pressure_info = FALSE
    /\ last_painting_pos = None
    /\ dragfunc = NoName /\ pressure_mapping = NoName
    /\ bad_devices = <<>> /\ motions = <<>>
    /\ translation_x = Zero /\ translation_y = Zero
    /\ scale = One /\ rotation = RotZero /\ mirrored = FALSE
    /\ has_pointer = FALSE
    /\ zoom_max = R(5) /\ zoom_min = Rat(1, 5)
    /\ window = None
    /\ strokes = <<>> /\ warnings = <<>> /\ dragcalls = <<>> /\ lines = <<>>
    /\ blits = {} /\ draws = <<>> /\ painted = [done |-> FALSE]
    /\ current_layer_solo = FALSE /\ show_layers_above = TRUE
    /\ overlay_layer = None
    /\ current_size = None
    /\ _processing_model_updates = FALSE
    /\ _layer_mode_combo = NoName /\ _opacity_scale = 0
    /\ rootstack = [mode |-> "normal", opacity |-> 100]
    /\ modelcalls = {} /\ stack = <<>> /\ assertion_failed = FALSE
    /\ ncallbacks = 0
    /\ doc = [layers |-> [i \in 1..NLayers |-> [name |-> i, visible |-> TRUE]],
              layer_idx |-> 0]
    /\ nevents = 0 /\ paths = <<>> /\ nops = 0
    /\ last = [op |-> "__init__"]
    /\ streamOpen = TRUE

----------------------------------------------------------------------------
(* Timing of motion samples: one mouse, timestamps in any order.           *)

Times == {0, 1000, 1010, 1100, 1300}

TimingEvents ==
    {Event(t, <<R(50), R(20)>>, "mouse", None, TRUE, FALSE, FALSE, "MOTION_NOTIFY", 0) :
        t \in Times}

NextTiming ==
    \/ realize({<<101, 75>>})
    \/ motion_notify_event(TimingEvents, MaxEvents)
    \/ start_drag({"pan"})
    \/ stop_drag({"pan"})
    \/ end_of_stream

SpecTiming == Init /\ [][NextTiming]_vars

----------------------------------------------------------------------------
(* Claims about the timing of stroke samples.                              *)

\* the dtime arguments of a sequence of stroke_to calls
dtimes(calls) == [i \in 1..Len(calls) |-> calls[i].dtime]

\* C1: when n >= 1 samples are buffered and a sample with dtime D > 0 reaches
\* the painting logic, exactly n+1 stroke_to calls are made, the n buffered
\* samples in arrival order and then the new one; their dtime arguments sum
\* to D, each is at most D, and the buffer is empty afterwards.
C1_ReplayOnTimedSample ==
    [][(/\ nevents' = nevents + 1
        /\ last'.path = "paint"
        /\ motions # <<>>
        /\ RLt(last_event_time, last_event_time'))
       => LET n == Len(motions)
              D == RDiv(RSub(last_event_time', last_event_time), R(1000))
              new == SubSeq(strokes', Len(strokes) + 1, Len(strokes'))
          IN  /\ Len(strokes') = Len(strokes) + n + 1
              /\ SubSeq(strokes', 1, Len(strokes)) = strokes
              /\ \A i \in 1..n : new[i].data = motions[i]
              /\ new[n + 1].data.id = nevents'
              /\ RSum(dtimes(new)) = D
              /\ \A i \in 1..(n + 1) : RLe(new[i].dtime, D)
              /\ motions' = <<>>]_vars

\* two buffered samples have been replayed by a third, timed one
C1_Witness ==
    /\ last.op = "motion_notify_cb" /\ last.path = "paint"
    /\ Len(last.buffered) >= 2
    /\ RLt(Zero, last.dtime)
    /\ Len(last.calls) = 3

\* C2: a negative dtime is treated as 0 (the sample is buffered like a
\* zero-dtime sample), and no dtime passed to stroke_to is negative.
C2_NoNegativeDtime ==
    /\ \A i \in 1..Len(strokes) : RLe(Zero, strokes[i].dtime)
    /\ (last.op = "motion_notify_cb" /\ last.path = "paint" /\ RLt(last.dtime, Zero))
       => /\ last.calls = <<>>
          /\ Len(motions) = Len(last.buffered) + 1
          /\ SubSeq(motions, 1, Len(last.buffered)) = last.buffered
          /\ motions[Len(motions)].id = nevents

\* a sample whose timestamp went backwards has just been buffered, after
\* earlier samples were passed to stroke_to
C2_Witness ==
    /\ last.op = "motion_notify_cb" /\ last.path = "paint"
    /\ RLt(last.dtime, Zero)
    /\ motions # <<>>
    /\ strokes # <<>>

\* the events that reached the painting logic
painted_ids == {i \in 1..nevents : paths[i].path = "paint"}

\* how often sample id occurs in a sequence of samples
occurrences(id, samples) == Cardinality({j \in 1..Len(samples) : samples[j].id = id})

stroke_samples == [j \in 1..Len(strokes) |-> strokes[j].data]

\* C3 (as stated): every sample that reached the painting logic is passed to
\* stroke_to exactly once, also one buffered for its zero dtime when the
\* stream ends: once nothing more is delivered, none is left unpassed.
C3_EverySampleEmitted ==
    ~streamOpen => \A id \in painted_ids : occurrences(id, stroke_samples) = 1

\* C3 (what the code does guarantee): a sample that reached the painting
\* logic is never dropped once buffered
\* and never passed twice: it is either still in the zero-dtime buffer or
\* has been passed to stroke_to exactly once, and samples are passed in
\* arrival order.  (A buffered sample leaves the buffer only when a later
\* sample with dtime > 0 reaches the painting logic.)
C3_BufferedOrEmittedOnce ==
    /\ \A id \in painted_ids :
          occurrences(id, stroke_samples) + occurrences(id, motions) = 1
    /\ \A j \in 1..Len(strokes) : strokes[j].data.id \in painted_ids
    /\ \A j \in 1..Len(motions) : motions[j].id \in painted_ids
    /\ \A j \in 1..(Len(strokes) - 1) : strokes[j].data.id < strokes[j + 1].data.id
    /\ \A j \in 1..Len(strokes) : \A k \in 1..Len(motions) :
          strokes[j].data.id < motions[k].id

\* the stream has ended while a sample is still buffered, after a replay
C3_Witness ==
    /\ ~streamOpen
    /\ motions # <<>>
    /\ Len(strokes) >= 2

----------------------------------------------------------------------------
(* Pressure of stroke samples: one device with or without usable pressure, *)
(* motion and button events.                                               *)

MaxPressureEvents == 3

PressureMotionEvents ==
    {Event(1000, <<R(50), R(20)>>, "tabletA", pb[1], pb[2], FALSE, FALSE, "MOTION_NOTIFY", 0) :
        pb \in {<<None, FALSE>>, <<None, TRUE>>, <<Rat(3, 10), FALSE>>,
                <<R(1000000), FALSE>>, <<R(-2000), FALSE>>}}

\* event.state of a button event carries the state before the event
PressureButtonPressEvents ==
    {Event(1010, <<R(50), R(20)>>, "tabletA", e[3], FALSE, FALSE, FALSE, e[1], e[2]) :
        e \in {<<"BUTTON_PRESS", 1, None>>, <<"BUTTON_PRESS", 1, R(1000000)>>,
               <<"BUTTON_PRESS", 1, Rat(3, 10)>>, <<"BUTTON_PRESS", 3, None>>,
               <<"2BUTTON_PRESS", 1, None>>}}

PressureButtonReleaseEvents ==
    {Event(1010, <<R(50), R(20)>>, "tabletA", e[2], e[1] = 1, FALSE, FALSE,
           "BUTTON_RELEASE", e[1]) :
        e \in {<<1, None>>, <<1, R(1000000)>>, <<3, None>>}}

NextPressure ==
    \/ realize({<<101, 75>>})
    \/ motion_notify_event(PressureMotionEvents, MaxPressureEvents)
    \/ button_press_cb(PressureButtonPressEvents, MaxPressureEvents)
    \/ button_release_cb(PressureButtonReleaseEvents, MaxPressureEvents)

SpecPressure == Init /\ [][NextPressure]_vars

\* the sample made from the last event: the newest buffered one, or the one
\* of the newest stroke_to call
last_sample ==
    IF motions # <<>> /\ motions[Len(motions)].id = nevents
    THEN motions[Len(motions)]
    ELSE strokes[Len(strokes)].data

no_pressure(pressure) ==
    pressure = None \/ RLt(R(1000), pressure) \/ RLt(pressure, R(-1000))

\* C4: a sample whose pressure is absent or beyond +/-1000 gets its pressure
\* from the button state, with no modifier held and no pressure mapping: 0.5
\* if button 1 is held or the sample is the one synthesized for a button-1
\* press, 0.0 otherwise; and a button-1 press that follows a sample with
\* pressure 1e6 makes a sample with pressure 0.5.
C4_PressureFromButton ==
    /\ (/\ last.op \in {"motion_notify_cb", "button_press_cb", "button_release_cb"}
        /\ last.path = "paint"
        /\ no_pressure(last.event.pressure)
        /\ ~last.event.ctrl /\ ~last.event.shift /\ pressure_mapping = NoName)
       => /\ last_sample.id = nevents
          /\ last_sample.pressure =
                 IF \/ last.op = "button_press_cb"
                    \/ last.op = "motion_notify_cb" /\ last.event.button1
                 THEN Half ELSE Zero
    /\ (/\ nevents >= 2
        /\ paths[nevents - 1].path = "paint"
        /\ paths[nevents - 1].event.pressure = R(1000000)
        /\ last.op = "button_press_cb"
        /\ last.event.type = "BUTTON_PRESS" /\ last.event.button = 1
        /\ no_pressure(last.event.pressure))
       => /\ last.path = "paint"
          /\ last_sample.id = nevents
          /\ last_sample.pressure = Half

\* a button-1 press after a sample with pressure 1e6 has made a stroke_to
\* call with pressure 0.5
C4_Witness ==
    /\ nevents >= 2
    /\ paths[nevents - 1].path = "paint"
    /\ paths[nevents - 1].event.pressure = R(1000000)
    /\ last.op = "button_press_cb" /\ last.path = "paint"
    /\ strokes # <<>>
    /\ strokes[Len(strokes)].data.id = nevents
    /\ strokes[Len(strokes)].data.pressure = Half

----------------------------------------------------------------------------
(* Bad-pressure warnings: three devices, two of them of the same name.     *)

Devices == {"tabletA", "tabletB", "mouse"}
DevicePressures == {Rat(3, 10), Rat(3, 2)}

DeviceEvents ==
    {Event(1000, <<R(50), R(20)>>, d, p, FALSE, FALSE, FALSE, "MOTION_NOTIFY", 0) :
        d \in Devices, p \in DevicePressures}

NextDevices ==
    \/ realize({<<101, 75>>})
    \/ motion_notify_event(DeviceEvents, MaxEvents)

SpecDevices == Init /\ [][NextDevices]_vars

\* the processed samples with a pressure outside [0,1] from the devices in ds
bad_samples(ds) ==
    {i \in painted_ids : /\ paths[i].event.device \in ds
                         /\ bad_pressure(paths[i].event.pressure)}

warned(ds) == {j \in 1..Len(warnings) : warnings[j].device \in ds}

Min(S) == CHOOSE x \in S : \A y \in S : x <= y

\* the warnings about the devices in ds: none without a bad sample, else one,
\* made for the first bad sample
warned_once_at_first(ds) ==
    IF bad_samples(ds) = {} THEN warned(ds) = {}
    ELSE /\ Cardinality(warned(ds)) = 1
         /\ \A j \in warned(ds) : warnings[j].id = Min(bad_samples(ds))

no_duplicates(seq) == \A i \in 1..Len(seq) : \A j \in 1..Len(seq) :
    seq[i] = seq[j] => i = j

\* C5 (as stated): the warning is issued once per device, at the first
\* processed sample of that device with a pressure outside [0,1], and
\* bad_devices holds no device twice.
C5_WarnedOncePerDevice ==
    /\ \A d \in Devices : warned_once_at_first({d})
    /\ no_duplicates(bad_devices)

\* C5 (amended): the warning is issued once per device name, at the first
\* processed sample with a pressure outside [0,1] from a device of that name;
\* bad_devices holds no name twice, and holds the names warned about, in
\* the order of the warnings.
C5_WarnedOncePerDeviceName ==
    /\ \A d \in Devices :
          warned_once_at_first({e \in Devices : DeviceName(e) = DeviceName(d)})
    /\ no_duplicates(bad_devices)
    /\ bad_devices = [j \in 1..Len(warnings) |-> DeviceName(warnings[j].device)]

\* both tablets have sent bad pressure, one of them twice, and one warning
\* has been printed
C5_Witness ==
    /\ Len(warnings) = 1
    /\ bad_samples({"tabletA"}) # {} /\ bad_samples({"tabletB"}) # {}
    /\ \E d \in Devices : Cardinality(bad_samples({d})) >= 2

----------------------------------------------------------------------------
(* The view: scrolling, zooming, rotating and mirroring with the pointer   *)
(* inside or outside the widget.                                           *)

MaxViewEvents == 1

\* the pointer moves over the widget (events without a timestamp: time 0)
ViewEvents ==
    {Event(0, xy, "mouse", None, FALSE, FALSE, FALSE, "MOTION_NOTIFY", 0) :
        xy \in PointerPositions}

NextView ==
    \/ realize(WindowSizes)
    \/ enter_notify_cb
    \/ leave_notify_cb
    \/ motion_notify_event(ViewEvents, MaxViewEvents)
    \/ \E d \in ScrollSteps : scroll(d[1], d[2])
    \/ zoom(ZoomSteps)
    \/ set_zoom(ZoomValues)
    \/ rotate(AngleSteps)
    \/ set_rotation(Angles)
    \/ mirror
    \/ set_mirrored({TRUE})

SpecView == Init /\ [][NextView]_vars

----------------------------------------------------------------------------
(* Claims about the view.                                                  *)

RotozoomOps == {"zoom", "set_zoom", "rotate", "set_rotation", "mirror", "set_mirrored"}
AnchoredOps == {"zoom", "set_zoom", "rotate", "set_rotation"}

\* C6: when zoom, set_zoom, rotate, set_rotation, mirror or set_mirrored has
\* returned, zoom_min <= scale <= zoom_max, whatever zoom step or zoom value
\* was asked for and whatever operations came before
C6_ScaleClamped ==
    last.op \in RotozoomOps => RLe(zoom_min, scale) /\ RLe(scale, zoom_max)

\* a zoom by the step 0 from the greatest scale: it asked for the scale 0
\* and left zoom_min
C6_Witness ==
    /\ last.op = "zoom" /\ last.requested = Zero /\ scale = zoom_min
    /\ nops >= 2

\* the device point to which the view transform now maps the model point
\* that lay under the anchor before the last operation, minus the anchor
anchor_error ==
    Only({<<RSub(p[1], last.c[1]), RSub(p[2], last.c[2])>> :
          p \in {user_to_device(get_model_coordinates_cairo_context, last.user)}})

\* C7 as stated: after zoom, set_zoom, rotate or set_rotation the model
\* point that lay under the anchor device point is mapped to that same
\* device point
C7_AnchorExact ==
    last.op \in AnchoredOps => anchor_error = <<Zero, Zero>>

\* C7 as amended: after zoom, set_zoom, rotate or set_rotation the model
\* point that lay under the anchor device point is mapped to within one
\* device pixel of the anchor on each axis
C7_AnchorWithinOnePixel ==
    last.op \in AnchoredOps =>
        \A e \in {anchor_error} : RLe(RAbs(e[1]), One) /\ RLe(RAbs(e[2]), One)

\* a zoom at the pointer whose scale was clamped and whose anchor moved by
\* a fraction of a pixel
C7_Witness ==
    /\ last.op = "zoom"
    /\ last.c = <<last_event_x, last_event_y>>
    /\ last.requested # scale
    /\ anchor_error # <<Zero, Zero>>

ModelPoints == {<<Zero, Zero>>, <<R(7), Rat(-3, 2)>>, <<Rat(1, 3), R(100)>>}

\* C8: in every view state of a realized widget the view transform is
\* invertible and mapping a model point to device space and back returns
\* the point
C8_RoundTrip ==
    window # None =>
        \A cr \in {get_model_coordinates_cairo_context} :
            /\ cr # InvalidMatrix
            /\ \A P \in ModelPoints :
                   device_to_user(cr, user_to_device(cr, P)) = P

\* a view that is scrolled, zoomed to a scale that is no power of two,
\* rotated by an angle that is no multiple of a quarter turn, and mirrored
C8_Witness ==
    /\ window # None
    /\ mirrored /\ rotation[2] = 1 /\ scale = Rat(3, 2)
    /\ translation_x # Zero /\ translation_y # Zero

----------------------------------------------------------------------------
(* Repainting under any view: full repaints, exposed rectangles and the    *)
(* L-shaped or scattered regions that a scroll exposes.                    *)

RepaintWindows == {<<160, 120>>}
RepaintZooms == {Rat(1, 8), Rat(2, 5), R(3)}
RepaintAngles == {<<0, 1>>, <<1, 0>>}

RepaintRegions ==
    {[device_bbox |-> None, region |-> {<<0, 0, 160, 120>>}],
     [device_bbox |-> <<10, 5, 60, 40>>, region |-> {<<10, 5, 60, 40>>}],
     [device_bbox |-> <<0, 0, 160, 120>>,
      region |-> {<<0, 0, 160, 10>>, <<0, 10, 8, 110>>}],
     [device_bbox |-> <<0, 0, 160, 120>>,
      region |-> {<<0, 0, 20, 20>>, <<140, 100, 20, 20>>}]}

NextRepaint ==
    \/ realize(RepaintWindows)
    \/ \E d \in ScrollSteps : scroll(d[1], d[2])
    \/ set_zoom(RepaintZooms)
    \/ set_rotation(RepaintAngles)
    \/ set_mirrored({TRUE})
    \/ \E e \in RepaintRegions : repaint(e.device_bbox, e.region)

SpecRepaint == Init /\ [][NextRepaint]_vars

----------------------------------------------------------------------------
(* Claims about repainting.                                                *)

\* level is max(0, ceil(log2(1/sc))) limited to MAX_MIPMAP_LEVEL: no smaller
\* level would do (sc * 2^(level-1) < 1) and, unless it is the last level,
\* it does (sc * 2^level >= 1)
best_level(sc, level) ==
    /\ level \in 0..MAX_MIPMAP_LEVEL
    /\ level > 0 => RLt(RMul(sc, Pow2(level - 1)), One)
    /\ level < MAX_MIPMAP_LEVEL => RLe(One, RMul(sc, Pow2(level)))

\* C9: the mipmap level chosen by repaint is max(0, ceil(log2(1/scale)))
\* limited to MAX_MIPMAP_LEVEL; it lies in [0, MAX_MIPMAP_LEVEL], is 0 for
\* scale 1 and 3 for scale 0.2, and of two repaints the one at the greater
\* scale never has the greater level
C9_MipmapLevel ==
    /\ [](painted.done =>
            /\ best_level(painted.scale, painted.mipmap_level)
            /\ painted.scale = One => painted.mipmap_level = 0
            /\ painted.scale = Rat(1, 5) => painted.mipmap_level = 3)
    /\ [][(painted.done /\ painted'.done /\ RLe(painted.scale, painted'.scale))
            => painted'.mipmap_level <= painted.mipmap_level]_vars

\* a repaint at scale 0.2, which chose level 3, after which the view was
\* zoomed in again
C9_Witness ==
    /\ painted.done /\ painted.scale = Rat(1, 5) /\ painted.mipmap_level = 3
    /\ RLt(painted.scale, scale)

\* the corners of a rectangle <<x, y, w, h>> of integers, as a box
\* <<x1, y1, x2, y2>> of rationals
box_of(rect) == <<R(rect[1]), R(rect[2]), R(rect[1] + rect[3]), R(rect[2] + rect[4])>>

bounding_box(points) ==
    Only({<<RMinOf({p[1] : p \in ps}), RMinOf({p[2] : p \in ps}),
            RMaxOf({p[1] : p \in ps}), RMaxOf({p[2] : p \in ps})>> :
          ps \in {points}})

\* two boxes share more than a border
boxes_overlap(a, b) ==
    /\ RLt(a[1], b[3]) /\ RLt(b[1], a[3])
    /\ RLt(a[2], b[4]) /\ RLt(b[2], a[4])

\* the extent of tile (tx, ty) in the user space of the repaint
tile_box(tx, ty) == <<R(tx * N), R(ty * N), R((tx + 1) * N), R((ty + 1) * N)>>

box_corners(b) == {<<b[1], b[2]>>, <<b[3], b[2]>>, <<b[1], b[4]>>, <<b[3], b[4]>>}

\* the tiles whose extent meets the device rectangle rect under the
\* transform cr.  cr maps rectangles to rectangles, so the two meet exactly
\* when no side of either separates them: the tile meets the bounding box
\* of the rectangle in user space, and the rectangle meets the bounding box
\* of the tile in device space.
tiles_meeting(cr, rect) ==
    UNION {{t \in (floor(RDiv(u[1], R(N)))..floor(RDiv(u[3], R(N)))) \X
                  (floor(RDiv(u[2], R(N)))..floor(RDiv(u[4], R(N)))) :
               /\ boxes_overlap(tile_box(t[1], t[2]), u)
               /\ boxes_overlap(bounding_box({Apply(cr, p) :
                                    p \in box_corners(tile_box(t[1], t[2]))}),
                                box_of(rect))} :
           u \in {bounding_box({device_to_user(cr, p) :
                                   p \in box_corners(box_of(rect))})}}

\* the part of a rectangle of the clip region that lies in the device bbox
clipped(r, b) ==
    LET x1 == max(r[1], b[1])
        y1 == max(r[2], b[2])
        x2 == min(r[1] + r[3], b[1] + b[3])
        y2 == min(r[2] + r[4], b[2] + b[4])
    IN  <<x1, y1, x2 - x1, y2 - y1>>

\* the tiles that contribute pixels to the region redrawn by the last repaint
needed_tiles ==
    UNION {tiles_meeting(painted.cr, clipped(r, painted.device_bbox)) :
              r \in {q \in painted.gdk_clip_region :
                        /\ clipped(q, painted.device_bbox)[3] > 0
                        /\ clipped(q, painted.device_bbox)[4] > 0}}

blitted_tiles == {<<b.tx, b.ty>> : b \in blits}

\* C10: every tile whose extent meets the redrawn device region under the
\* transform of the repaint is among the tiles for which repaint requested
\* a blit, in sparse and in non-sparse mode
C10_NoNeededTileSkipped ==
    painted.done => needed_tiles \subseteq blitted_tiles

\* a sparse repaint of a rotated, zoomed and mirrored view that skipped some
\* tiles of its surface and blitted the others
C10_Witness ==
    /\ last.op = "repaint"
    /\ painted.done /\ painted.sparse /\ ~painted.translation_only
    /\ rotation[2] = 1 /\ mirrored /\ scale # One
    /\ blitted_tiles # {} /\ blitted_tiles # painted.tiles
    /\ needed_tiles # {}

----------------------------------------------------------------------------
(* Repainting an unzoomed, unrotated view: regions inside one tile, with   *)
(* the view scrolled by whole and by half pixels.                          *)

TileScrolls == {<<R(-3), R(7)>>, <<Rat(5, 2), Zero>>, <<R(-64), R(-20)>>}

\* rectangular regions, and an L-shaped one of which the centre is not part
TileRegions ==
    {[device_bbox |-> <<10, 5, 40, 40>>, region |-> {<<10, 5, 40, 40>>}],
     [device_bbox |-> <<0, 0, 64, 64>>, region |-> {<<0, 0, 64, 64>>}],
     [device_bbox |-> <<70, 20, 58, 44>>, region |-> {<<70, 20, 58, 44>>}],
     [device_bbox |-> <<40, 30, 60, 20>>, region |-> {<<40, 30, 60, 20>>}],
     [device_bbox |-> <<0, 0, 64, 64>>,
      region |-> {<<0, 0, 64, 20>>, <<0, 20, 20, 44>>}]}

NextTiles ==
    \/ realize(RepaintWindows)
    \/ \E d \in TileScrolls : scroll(d[1], d[2])
    \/ \E e \in TileRegions : repaint(e.device_bbox, e.region)

SpecTiles == Init /\ [][NextTiles]_vars

\* the image in model space of the device region of the last repaint
painted_extents == clip_extents(painted.cr, painted.device_bbox)

\* the tile in which the upper left corner of that image lies
painted_tile ==
    Only({<<floor(RDiv(e[1], R(N))), floor(RDiv(e[2], R(N)))>> :
          e \in {painted_extents}})

\* the image lies inside that tile, its right and bottom edge included
inside_painted_tile ==
    \A e \in {painted_extents} : \A t \in {painted_tile} :
        /\ RLe(e[3], R((t[1] + 1) * N))
        /\ RLe(e[4], R((t[2] + 1) * N))

\* C11: with scale 1, rotation 0 and no mirroring, the repaint of a device
\* region whose image in model space lies inside one tile (it may touch the
\* right or the bottom edge of the tile) requests a blit for that tile only,
\* at mipmap level 0
C11_ExactlyOneTile ==
    (painted.done /\ painted.translation_only /\ inside_painted_tile) =>
        blits = {[tx |-> painted_tile[1], ty |-> painted_tile[2],
                  mipmap_level |-> 0]}

----------------------------------------------------------------------------
(* Change notifications of the document, before and after the widget is    *)
(* realized, with the view scrolled, zoomed, rotated and mirrored.         *)

DirtyZooms == {Rat(1, 2), R(3)}

\* (0, 0, 0, 0) stands for the whole canvas
ModifiedRects == {<<0, 0, 0, 0>>, <<0, 0, 10, 10>>, <<-7, 64, 3, 20>>}

NextDirty ==
    \/ realize(RepaintWindows)
    \/ \E d \in ScrollSteps : scroll(d[1], d[2])
    \/ set_zoom(DirtyZooms)
    \/ set_rotation(RepaintAngles)
    \/ set_mirrored({TRUE})
    \/ \E r \in ModifiedRects : canvas_modified_cb(r[1], r[2], r[3], r[4])

SpecDirty == Init /\ [][NextDirty]_vars

\* the last step was a change notification for a rectangle, and the widget
\* has a window
rect_notified ==
    /\ last.op = "canvas_modified_cb"
    /\ ~(last.rect[3] = 0 /\ last.rect[4] = 0)
    /\ window # None

\* the device rectangle a contains the device point p
area_contains(a, p) ==
    /\ RLe(R(a[1]), p[1]) /\ RLe(p[1], R(a[1] + a[3]))
    /\ RLe(R(a[2]), p[2]) /\ RLe(p[2], R(a[2] + a[4]))

\* the corners of the model rectangle (x1, y1, w, h), which covers the pixels
\* x1 .. x1+w-1 by y1 .. y1+h-1
rect_corners(x1, y1, w, h) ==
    {<<R(x1), R(y1)>>, <<R(x1 + w), R(y1)>>,
     <<R(x1), R(y1 + h)>>, <<R(x1 + w), R(y1 + h)>>}

\* the image of those corners under the view transform
rect_image(rect) ==
    {user_to_device(cr, p) :
        cr \in {get_model_coordinates_cairo_context},
        p \in rect_corners(rect[1], rect[2], rect[3], rect[4])}

\* C12: the device rectangle queued for a modified model rectangle (w, h not
\* both 0) contains the image of the whole model rectangle under the view
\* transform, and is exactly the mapped rectangle when the view is
\* translation-only
C12_QueuedContainsImage ==
    rect_notified =>
        /\ draws # <<>>
        /\ draws[Len(draws)].call = "queue_draw_area"
        /\ \A p \in rect_image(last.rect) :
               area_contains(draws[Len(draws)].area, p)
        /\ is_translation_only =>
               \A a \in {draws[Len(draws)].area} :
                   rect_image(last.rect) =
                       {<<R(a[1]), R(a[2])>>, <<R(a[1] + a[3]), R(a[2])>>,
                        <<R(a[1]), R(a[2] + a[4])>>,
                        <<R(a[1] + a[3]), R(a[2] + a[4])>>}

\* the step is a call of canvas_modified_cb
notification_step == nops' # nops /\ last'.op = "canvas_modified_cb"

\* the step appends exactly one entry to the log of invalidations: the whole
\* widget for the sentinel, one rectangle otherwise
one_invalidation ==
    /\ Len(draws') = Len(draws) + 1
    /\ SubSeq(draws', 1, Len(draws)) = draws
    /\ IF last'.rect[3] = 0 /\ last'.rect[4] = 0
       THEN draws'[Len(draws')] = queue_draw
       ELSE draws'[Len(draws')].call = "queue_draw_area"

\* C13 (as stated): every call of canvas_modified_cb queues exactly one
\* invalidation, the whole widget for the sentinel and one device rectangle
\* otherwise; none is dropped, none is merged with another
C13_OneInvalidationPerCall ==
    [][notification_step => one_invalidation]_vars

\* C13 (amended): a call of canvas_modified_cb on a widget that has a window
\* queues exactly one invalidation, the whole widget for the sentinel and one
\* device rectangle otherwise; a call before the widget has a window queues
\* nothing
C13_OneInvalidationWhenRealized ==
    [][notification_step =>
          IF window = None THEN draws' = draws ELSE one_invalidation]_vars

\* two notifications in a row on a realized widget, both in the log
C13_Witness ==
    /\ last.op = "canvas_modified_cb" /\ window # None
    /\ nops = 2 /\ Len(draws) = 2
    /\ draws[1].call = "queue_draw_area" /\ draws[2].call = "queue_draw_area"
    /\ draws[1] # draws[2]

\* C14: repaint on a widget that has no window is a no-op: it requests no
\* blit, draws nothing, keeps no working buffer and raises no error
C14_RepaintWithoutWindowIsNoOp ==
    (last.op = "repaint" /\ window = None) =>
        /\ last.raised = NoName
        /\ blits = {}
        /\ ~painted.done

----------------------------------------------------------------------------
(* Input to a widget that is switched between sensitive and insensitive:   *)
(* a mouse moved with button 1 held, shift-clicks, a drag callback.        *)

SensitiveMotionEvents ==
    {Event(t, <<R(50), R(20)>>, "mouse", None, TRUE, FALSE, FALSE, "MOTION_NOTIFY", 0) :
        t \in {1000, 1010}}

SensitivePressEvents ==
    {Event(1020, <<R(70), R(30)>>, "mouse", None, FALSE, FALSE, shift, "BUTTON_PRESS", 1) :
        shift \in BOOLEAN}

SensitiveReleaseEvents ==
    {Event(1030, <<R(70), R(30)>>, "mouse", None, TRUE, FALSE, FALSE, "BUTTON_RELEASE", 1)}

NextSensitive ==
    \/ realize({<<101, 75>>})
    \/ motion_notify_event(SensitiveMotionEvents, MaxPressureEvents)
    \/ button_press_cb(SensitivePressEvents, MaxPressureEvents)
    \/ button_release_cb(SensitiveReleaseEvents, MaxPressureEvents)
    \/ set_sensitive
    \/ start_drag({"pan"})
    \/ stop_drag({"pan"})

SpecSensitive == Init /\ [][NextSensitive]_vars

\* C15: while the widget is insensitive, no motion, button-press or
\* button-release event causes a call of stroke_to, of straight_line or of
\* the drag callback
C15_InsensitiveAcceptsNoInput ==
    [][(~is_sensitive /\ nevents' = nevents + 1) =>
          /\ strokes' = strokes
          /\ lines' = lines
          /\ dragcalls' = dragcalls]_vars

----------------------------------------------------------------------------
(* First and later samples (SpecTiming: every event is handled).           *)

\* C16: the first motion sample handled after construction emits no stroke
\* sample and only records position, time and device; every later handled
\* sample is not treated as a first sample again and takes its dtime from the
\* sample handled just before it, whatever the timestamps are (0 included)
C16_FirstSampleOnlyOnce ==
    [][nevents' = nevents + 1 =>
          IF nevents = 0
          THEN /\ last'.path = "first"
               /\ strokes' = strokes /\ motions' = motions
               /\ last_event_time' = last'.event.time
               /\ last_event_x' = last'.event.x /\ last_event_y' = last'.event.y
               /\ last_event_device' = last'.event.device
          ELSE /\ last'.path # "first"
               /\ last'.path = "paint" =>
                      last'.dtime = RDiv(RSub(last'.event.time, last_event_time),
                                         R(1000))]_vars

\* C17: while a drag callback is active, every motion sample but the first
\* calls the callback exactly once, with the position delta to the sample
\* before it, makes no stroke_to call, and leaves the buffer of zero-dtime
\* samples, last_event_had_pressure_info, bad_devices and last_painting_pos
\* unchanged
C17_DragSkipsPainting ==
    [][(nevents' = nevents + 1 /\ nevents >= 1 /\ dragfunc # NoName) =>
          /\ dragcalls' = Append(dragcalls,
                                 [f |-> dragfunc,
                                  dx |-> RSub(last'.event.x, last_event_x),
                                  dy |-> RSub(last'.event.y, last_event_y)])
          /\ strokes' = strokes
          /\ UNCHANGED <<motions, last_event_had_pressure_info, bad_devices,
                         last_painting_pos>>]_vars

----------------------------------------------------------------------------
(* Pressure values in and out of range from one tablet, with timestamps    *)
(* that let samples reach stroke_to; no modifier and no pressure mapping.  *)

BandPressures == {Rat(3, 10), Rat(3, 2), Rat(-1, 2), R(2000), None}

BandEvents ==
    {Event(t, <<R(50), R(20)>>, "tabletA", p, TRUE, FALSE, FALSE, "MOTION_NOTIFY", 0) :
        t \in {1000, 1010}, p \in BandPressures}

NextBand ==
    \/ realize({<<101, 75>>})
    \/ motion_notify_event(BandEvents, MaxPressureEvents)

SpecBand == Init /\ [][NextBand]_vars

\* the samples made so far: those passed to stroke_to and those still buffered
all_samples == {strokes[i].data : i \in 1..Len(strokes)} \cup Range(motions)

passed_samples == {strokes[i].data : i \in 1..Len(strokes)}

in_band(pressure) ==
    pressure # None /\ RLe(R(-1000), pressure) /\ RLe(pressure, R(1000))

\* C18 (as stated): with no pressure mapping every pressure passed to
\* stroke_to lies in [0,1], a reported pressure outside [0,1] but not beyond
\* +/-1000 being clamped into [0,1]
C18_PressureClamped ==
    \A d \in passed_samples : RLe(Zero, d.pressure) /\ RLe(d.pressure, One)

\* C18 (amended): with no modifier and no pressure mapping, a reported
\* pressure that is not beyond +/-1000 is the pressure of the sample,
\* unchanged also when it is outside [0,1]; a pressure beyond +/-1000 or a
\* missing one gives a sample pressure of 0 or 0.5
C18_PressureInBandUnchanged ==
    \A d \in all_samples :
        IF in_band(paths[d.id].event.pressure)
        THEN d.pressure = paths[d.id].event.pressure
        ELSE d.pressure \in {Zero, Half}

\* a pressure of 1.5 and one of -0.5 have been passed to stroke_to
C18_Witness ==
    /\ \E d \in passed_samples : d.pressure = Rat(3, 2) /\ paths[d.id].event.pressure = Rat(3, 2)
    /\ \E d \in passed_samples : d.pressure = Rat(-1, 2)

----------------------------------------------------------------------------
(* Modifier keys: Ctrl (or Alt) and Shift held during motion, with and     *)
(* without a pressure mapping installed.                                   *)

\* <<ctrl or alt, shift>>
Modifiers == {<<FALSE, FALSE>>, <<TRUE, FALSE>>, <<FALSE, TRUE>>}

ModifierEvents ==
    {Event(t, <<R(50), R(20)>>, "tabletA", p, TRUE, mod[1], mod[2], "MOTION_NOTIFY", 0) :
        t \in {1000, 1010}, p \in {Rat(3, 10), None}, mod \in Modifiers}

NextModifiers ==
    \/ realize({<<101, 75>>})
    \/ motion_notify_event(ModifierEvents, MaxPressureEvents)
    \/ set_pressure_mapping

SpecModifiers == Init /\ [][NextModifiers]_vars

\* C19: a motion sample with Ctrl or Alt, or with Shift, held is not
\* discarded: it is buffered or passed to stroke_to, with pressure 0,
\* whatever the reported pressure, the button state and the pressure mapping
C19_ModifierZeroPressure ==
    \A i \in painted_ids :
        (paths[i].event.ctrl \/ paths[i].event.shift) =>
            /\ \E d \in all_samples : d.id = i
            /\ \A d \in all_samples : d.id = i => d.pressure = Zero

----------------------------------------------------------------------------
(* Tilt axes: present, missing on one or both axes, "infinite".            *)

\* <<xtilt, ytilt>> as event.get_axis reports them
Tilts ==
    {<<Rat(1, 2), Rat(-1, 4)>>, <<None, Rat(1, 2)>>, <<Rat(1, 2), None>>,
     <<None, None>>, <<R(2000), Rat(1, 4)>>, <<Rat(1, 4), R(-2000)>>,
     <<R(1000), R(-1000)>>, <<Rat(3, 2), Zero>>}

TiltEvents ==
    {[Event(t, <<R(50), R(20)>>, "tabletA", Rat(3, 10), FALSE, FALSE, FALSE,
            "MOTION_NOTIFY", 0) EXCEPT !.xtilt = tilt[1], !.ytilt = tilt[2]] :
        t \in {1000, 1010}, tilt \in Tilts}

NextTilt ==
    \/ realize({<<101, 75>>})
    \/ motion_notify_event(TiltEvents, MaxPressureEvents)

SpecTilt == Init /\ [][NextTilt]_vars

\* the axis value is missing or beyond +/-1000
no_tilt(tilt) == tilt = None \/ ~(RLe(R(-1000), tilt) /\ RLe(tilt, R(1000)))

\* C20: when either tilt axis of a motion sample is missing or beyond
\* +/-1000, xtilt and ytilt of the stroke sample are both 0; otherwise both
\* are the reported values
C20_TiltBothOrNone ==
    \A d \in all_samples :
        IF no_tilt(paths[d.id].event.xtilt) \/ no_tilt(paths[d.id].event.ytilt)
        THEN d.xtilt = Zero /\ d.ytilt = Zero
        ELSE d.xtilt = paths[d.id].event.xtilt /\ d.ytilt = paths[d.id].event.ytilt

\* stroke_to has received a sample whose valid x tilt was dropped because the
\* y tilt was "infinite", and one with both tilts as reported
C20_Witness ==
    /\ \E d \in passed_samples :
           /\ paths[d.id].event.xtilt = Rat(1, 4)
           /\ paths[d.id].event.ytilt = R(-2000)
           /\ d.xtilt = Zero /\ d.ytilt = Zero
    /\ \E d \in passed_samples : d.xtilt = Rat(1, 2) /\ d.ytilt = Rat(-1, 4)

----------------------------------------------------------------------------
(* The time given to replayed samples (SpecTiming).                        *)

\* C21: on a replay of n buffered samples by a new sample of dtime D > 0,
\* if D <= 0.1 s (0.1 s included) all n+1 samples get the equal share
\* D/(n+1); if D > 0.1 s each buffered sample gets 0.1/(n+1) s and the new
\* sample the remainder D - n*0.1/(n+1); the buffered samples together get
\* less than 0.1 s
C21_ReplayShares ==
    [][(/\ nevents' = nevents + 1
        /\ last'.path = "paint"
        /\ motions # <<>>
        /\ RLt(last_event_time, last_event_time'))
       => LET n == Len(motions)
              D == RDiv(RSub(last_event_time', last_event_time), R(1000))
              new == SubSeq(strokes', Len(strokes) + 1, Len(strokes'))
              share == IF RLe(D, Rat(1, 10)) THEN RDiv(D, R(n + 1))
                       ELSE RDiv(Rat(1, 10), R(n + 1))
          IN  /\ Len(new) = n + 1
              /\ \A i \in 1..n : new[i].dtime = share
              /\ new[n + 1].dtime = IF RLe(D, Rat(1, 10)) THEN share
                                    ELSE RSub(D, RMul(R(n), share))
              /\ RLt(RMul(R(n), share), Rat(1, 10))]_vars

\* two buffered samples replayed by a sample exactly 0.1 s later
C21_Witness ==
    /\ last.op = "motion_notify_cb" /\ last.path = "paint"
    /\ Len(last.buffered) = 2
    /\ last.dtime = Rat(1, 10)
    /\ Len(last.calls) = 3

\* C22: with the widget sensitive and no drag callback (SpecBand), whenever
\* the buffer of zero-dtime samples is empty, the dtime arguments passed to
\* stroke_to so far sum to the time from the first handled sample to the last
\* one, in seconds, also when timestamps went backwards
C22_ElapsedTimePreserved ==
    (nevents >= 1 /\ motions = <<>>) =>
        RSum(dtimes(strokes)) =
            RDiv(RSub(last_event_time, paths[1].event.time), R(1000))

----------------------------------------------------------------------------
(* Motion samples synthesized for button events (SpecPressure).            *)

\* the last event that reached the painting logic
last_painted == CHOOSE i \in painted_ids : \A j \in painted_ids : j <= i

\* no sample has reached the painting logic yet, or the last one that did
\* carried no valid pressure
no_telemetry ==
    painted_ids = {} \/ ~in_band(paths[last_painted].event.pressure)

\* C23: a press or a release of button 1 hands exactly one extra motion
\* sample, with the button state forced to pressed or released, to
\* motion_notify_cb if and only if the last motion sample processed by the
\* painting logic carried no valid pressure; presses and releases of other
\* buttons and double-click presses hand over none
C23_SynthesizedIffNoPressure ==
    [][(/\ nevents' = nevents + 1
        /\ last'.op \in {"button_press_cb", "button_release_cb"})
       => /\ (last'.path # "none") <=>
                 /\ last'.event.button = 1
                 /\ last'.op = "button_press_cb" =>
                        last'.event.type = "BUTTON_PRESS"
                 /\ no_telemetry
          /\ last'.path = "paint" =>
                 /\ last'.button1_pressed = <<last'.op = "button_press_cb">>
                 /\ Len(strokes') + Len(motions') =
                        Len(strokes) + Len(motions) + 1]_vars

\* a press of button 1 after a sample with "infinite" pressure has made a
\* sample
C23_Witness ==
    /\ last.op = "button_press_cb" /\ last.path = "paint"
    /\ nevents >= 3
    /\ paths[nevents - 1].path = "paint"
    /\ paths[nevents - 1].event.pressure = R(1000000)
    /\ last.button1_pressed = <<TRUE>>

----------------------------------------------------------------------------
(* Which candidate tiles a repaint blits (SpecRepaint).                    *)

\* the device pixels that hold the images of the four corner pixels of tile
\* (tx, ty), the tile taken one pixel larger on each side when the view is
\* not translation-only, and the rectangle <<x, y, w, h>> around them
corner_pixels(tx, ty) ==
    {Apply(painted.cr, <<R(x), R(y)>>) :
        x \in {tx * N - e : e \in {IF painted.translation_only THEN 0 ELSE 1}}
              \cup {(tx + 1) * N - 1 + e :
                       e \in {IF painted.translation_only THEN 0 ELSE 1}},
        y \in {ty * N - e : e \in {IF painted.translation_only THEN 0 ELSE 1}}
              \cup {(ty + 1) * N - 1 + e :
                       e \in {IF painted.translation_only THEN 0 ELSE 1}}}

corner_bbox(tx, ty) ==
    Only({<<floor(b[1]), floor(b[2]),
            floor(b[3]) - floor(b[1]) + 1, floor(b[4]) - floor(b[2]) + 1>> :
          b \in {bounding_box(corner_pixels(tx, ty))}})

\* C24: a repaint blits every candidate tile of its working buffer exactly
\* once, except that in sparse mode it skips exactly the tiles of which the
\* device-space bounding box of the corners (taken one pixel larger when the
\* view is not translation-only) lies entirely outside the clip region; in
\* non-sparse mode it skips none
C24_BlittedUnlessOutside ==
    painted.done =>
        /\ blitted_tiles =
               {t \in painted.tiles :
                   ~(/\ painted.sparse
                     /\ rect_out(painted.gdk_clip_region,
                                 corner_bbox(t[1], t[2])))}
        /\ \A b \in blits : b.mipmap_level = painted.mipmap_level
        /\ Cardinality(blits) = Cardinality(blitted_tiles)

\* a sparse repaint of a translation-only view that skipped some candidate
\* tiles and blitted others
C24_Witness ==
    /\ last.op = "repaint" /\ painted.done
    /\ painted.sparse /\ painted.translation_only
    /\ blitted_tiles # {} /\ blitted_tiles # painted.tiles

----------------------------------------------------------------------------
(* The layers a repaint composites: layers shown and hidden, the current   *)
(* layer, solo mode, layers above, an overlay layer.                       *)

LayerRegions == {[device_bbox |-> None, region |-> {<<0, 0, 160, 120>>}]}

NextLayers ==
    \/ realize(RepaintWindows)
    \/ toggle_show_layers_above
    \/ set_current_layer_solo
    \/ set_overlay_layer
    \/ select_layer
    \/ set_layer_visible
    \/ \E e \in LayerRegions : repaint(e.device_bbox, e.region)

SpecLayers == Init /\ [][NextLayers]_vars

\* C25: with an overlay layer set, every repaint completes and composites a
\* list of layers in which the overlay layer is the one right above the
\* current layer, whether the current layer is visible or not, with and
\* without the layers above, in and out of solo mode
C25_OverlayAboveCurrent ==
    (last.op = "repaint" /\ window # None /\ overlay_layer # None) =>
        /\ last.raised = NoName
        /\ \E i \in 1..(Len(painted.layers) - 1) :
               /\ painted.layers[i] = doc_layer
               /\ painted.layers[i + 1] = overlay_layer[1]

\* the positions in doc.layers of the layers to show: the visible ones, and
\* without the layers above only those up to the current layer
shown == {i \in 1..Len(doc.layers) :
             /\ doc.layers[i].visible
             /\ show_layers_above \/ i <= doc.layer_idx + 1}

\* the k-th of them from the bottom
kth_shown(k) == CHOOSE i \in shown : Cardinality({j \in shown : j < i}) = k - 1

\* C26: with no overlay layer, a repaint out of solo mode hands to its blits
\* exactly the visible layers of the document in stack order, only those up
\* to and including the current layer when show_layers_above is false, and
\* no background; in solo mode it hands over just the current layer, and the
\* neutral background
C26_LayersComposited ==
    (last.op = "repaint" /\ last.raised = NoName /\ overlay_layer = None) =>
        IF current_layer_solo
        THEN /\ painted.layers = <<doc_layer>>
             /\ painted.background = "neutral_background_pixbuf"
        ELSE /\ Len(painted.layers) = Cardinality(shown)
             /\ \A k \in 1..Len(painted.layers) :
                    painted.layers[k] = doc.layers[kth_shown(k)]
             /\ painted.background = NoName

\* a repaint without the layers above: the current layer is the middle one,
\* the layer below it is hidden, and only the current layer is composited
C26_Witness ==
    /\ last.op = "repaint" /\ last.raised = NoName
    /\ overlay_layer = None /\ ~current_layer_solo /\ ~show_layers_above
    /\ doc.layer_idx = 1 /\ ~doc.layers[1].visible
    /\ painted.layers = <<doc.layers[2]>>

----------------------------------------------------------------------------
(* Two drag callbacks started and stopped in any order, between motion     *)
(* samples of one mouse at two positions.                                   *)

DragEvents ==
    {Event(t, pos, "mouse", None, TRUE, FALSE, FALSE, "MOTION_NOTIFY", 0) :
        t \in {0, 1000, 1010}, pos \in {<<R(50), R(20)>>, <<R(60), R(25)>>}}

NextDrag ==
    \/ realize({<<101, 75>>})
    \/ motion_notify_event(DragEvents, MaxPressureEvents)
    \/ start_drag(DragFuncs)
    \/ stop_drag(DragFuncs)

SpecDrag == Init /\ [][NextDrag]_vars

\* C27: stop_drag(f) clears the active drag callback if f is the active one
\* and changes nothing otherwise (after start_drag(g), stop_drag(f) leaves g
\* active); while a callback is active a motion sample paints nothing and
\* every position delta delivered goes to that callback; while none is
\* active a motion sample calls no drag callback and is either a first
\* sample or goes to the painting logic
C27_StopDragOnlyActive ==
    [][/\ last'.op = "stop_drag" =>
              dragfunc' = IF last'.active = last'.f THEN NoName
                          ELSE last'.active
       /\ last'.op = "start_drag" => dragfunc' = last'.f
       /\ nevents' = nevents + 1 =>
              IF dragfunc # NoName
              THEN /\ strokes' = strokes
                   /\ dragfunc' = dragfunc
                   /\ dragcalls' # dragcalls =>
                          dragcalls' = Append(dragcalls,
                              [f |-> dragfunc,
                               dx |-> RSub(last'.event.x, last_event_x),
                               dy |-> RSub(last'.event.y, last_event_y)])
              ELSE /\ dragcalls' = dragcalls
                   /\ last'.path \in {"first", "paint"}]_vars

\* after start_drag("pan"), start_drag("rotate"), stop_drag("pan") a motion
\* sample has been delivered to "rotate", which is still active
C27_Witness ==
    /\ last.op = "motion_notify_cb" /\ last.path = "drag"
    /\ dragfunc = "rotate"
    /\ Len(dragcalls) = 2
    /\ dragcalls[1].f = "pan"
    /\ dragcalls[2] = [f |-> "rotate", dx |-> R(10), dy |-> R(5)]

----------------------------------------------------------------------------
(* The layers panel: notifications of the layer stack and changes made by  *)
(* the user, delivered whenever control is outside the panel's code.       *)

NextPanel ==
    \/ show
    \/ current_path_updated
    \/ layer_properties_changed
    \/ opacity_scale_moved
    \/ layer_mode_chosen
    \/ _show_cb
    \/ _current_path_updated_cb
    \/ _layer_propchange_cb
    \/ _update_all
    \/ _update_context_menu
    \/ _update_layer_mode_combo
    \/ _update_opacity_scale
    \/ _opacity_scale_changed_cb
    \/ _layer_mode_combo_changed_cb

SpecPanel == Init /\ [][NextPanel]_vars

\* C28: no call of set_current_layer_opacity or set_current_layer_mode is
\* made while the widgets are being updated from the document model
C28_NoFeedbackIntoModel == \A c \in modelcalls : ~c.updating

\* C29: no assertion of the update functions fails, the flag is set
\* whenever one of the update functions is executing, and it is clear
\* whenever no model-update callback is running
C29_FlagTracksModelUpdates ==
    /\ ~assertion_failed
    /\ on_stack(UpdateFunctions) => _processing_model_updates
    /\ ~on_stack(ModelUpdateCallbacks) => ~_processing_model_updates

----------------------------------------------------------------------------
(* Size allocations of the widget, with scrolling in between.              *)

AllocatedSizes == {<<100, 80>>, <<101, 80>>, <<104, 84>>, <<97, 75>>}

NextResize ==
    \/ realize({<<100, 80>>})
    \/ size_allocate_cb(AllocatedSizes)
    \/ \E d \in ScrollSteps : scroll(d[1], d[2])

SpecResize == Init /\ [][NextResize]_vars

\* C30: the first allocation and an allocation of the current size leave
\* the translation unchanged; an allocation of another size moves the
\* translation by half the difference of the sizes on each axis; and after
\* an allocation of size B directly followed by an allocation of the size A
\* the widget had before, the translation is the one it had at size A
C30_ResizeRoundTrip ==
    last.op = "size_allocate_cb" =>
        /\ (last.old.size = None \/ last.old.size = current_size) =>
               <<translation_x, translation_y>> = last.old.translation
        /\ (last.old.size # None /\ last.old.size # current_size) =>
               /\ translation_x = RSub(last.old.translation[1],
                                       Rat(last.old.size[1] - current_size[1], 2))
               /\ translation_y = RSub(last.old.translation[2],
                                       Rat(last.old.size[2] - current_size[2], 2))
        /\ last.older.size = current_size =>
               <<translation_x, translation_y>> = last.older.translation

====
